---- MODULE Spec2Model ----
(***************************************************************************)
(* A model of the dotfiles CLI (backup / sync / install / verify).         *)
(*                                                                         *)
(* The only durable state is the filesystem.  It is modelled as a function *)
(* from the paths the commands touch to nodes (absent, directory, or a     *)
(* regular file with a content).  Every node.js primitive the commands use *)
(* (existsSync, mkdirSync, readdirSync, copyFileSync, readFileSync) is an  *)
(* operator that either yields a new filesystem or raises, and the command *)
(* functions are translated statement by statement on top of them.         *)
(* Filesystem errors are not injected: they arise from the filesystem      *)
(* itself (a directory where a file is expected, a file where a directory  *)
(* is expected), exactly as EISDIR / ENOTDIR / EEXIST arise in node.       *)
(***************************************************************************)
EXTENDS Integers, Sequences, FiniteSets, TLC

VARIABLES fs, cmd, pc, results, exitCode, crashed, shown, vresults, tools, fs0

vars == <<fs, cmd, pc, results, exitCode, crashed, shown, vresults, tools, fs0>>

(***************************************************************************)
(* Bounds.                                                                 *)
(***************************************************************************)
\* Distinct file contents: a file's content is one of 1..MaxContent.
MaxContent == 2

Contents == 1..MaxContent

(***************************************************************************)
(* Nodes and paths.                                                        *)
(***************************************************************************)
NoNode == [kind |-> "none", data |-> 0]

DirNode == [kind |-> "dir", data |-> 0]

FileNode(c) == [kind |-> "file", data |-> c]

\* path.join and path.dirname on paths held as sequences of segments.
join(p, q) == p \o q

dirname(p) == SubSeq(p, 1, Len(p) - 1)

\* homedir() and the repository root (join(__dirname, "../..")).
homedir == <<"home">>

repoRoot == <<"repo">>

\* The one calendar date of the model: today's date, and the only date a
\* backup snapshot may exist for.
Today == "d1"

SysBashrc == join(homedir, <<".bashrc">>)

SysTmux == join(homedir, <<".config", "tmux", "tmux.conf">>)

SysHelix == join(homedir, <<".config", "helix">>)

RepoBashrc == join(repoRoot, <<"configs", "bashrc">>)

RepoTmux == join(repoRoot, <<"configs", "tmux", "tmux.conf">>)

RepoHelix == join(repoRoot, <<"configs", "helix">>)

BackupDir(d) == join(repoRoot, <<"backups", d>>)

\* Entry names below a directory config, and the relative paths tracked
\* below each helix root (files "a", "sub/a"; ".git" at two depths).
Names == {"a", "sub", ".git"}

RelPaths == {<<>>, <<"a">>, <<"sub">>, <<".git">>, <<"sub", "a">>, <<"sub", ".git">>, <<".git", "a">>}

TreePaths(root) == {join(root, r) : r \in RelPaths}

\* The marker paths verify looks for.
NvmPath == join(homedir, <<".nvm">>)

ZoxidePath == join(homedir, <<".local", "bin", "zoxide">>)

SysPaths == {SysBashrc, dirname(SysTmux), SysTmux, NvmPath, ZoxidePath} \cup TreePaths(SysHelix)

RepoPaths == {RepoBashrc, dirname(RepoTmux), RepoTmux} \cup TreePaths(RepoHelix)

BackupPaths == {BackupDir(Today), join(BackupDir(Today), <<"bashrc">>), join(BackupDir(Today), <<"tmux">>), join(BackupDir(Today), <<"tmux", "tmux.conf">>)} \cup TreePaths(join(BackupDir(Today), <<"helix">>))

AllPaths == SysPaths \cup RepoPaths \cup BackupPaths

Prefixes(p) == {SubSeq(p, 1, i) : i \in 1..Len(p)}

IsPrefix(p, q) == Len(p) <= Len(q) /\ SubSeq(q, 1, Len(p)) = p

\* The node at a path.  The ancestors of the tracked paths (the home
\* directory, ~/.config, the repository root, configs/, backups/) always
\* exist as directories; any other untracked path does not exist.
Node(f, p) ==
    IF p \in DOMAIN f THEN f[p]
    ELSE IF \E q \in AllPaths : IsPrefix(p, q) THEN DirNode
    ELSE NoNode

(***************************************************************************)
(* node:fs primitives.  A primitive that can raise returns                 *)
(* [fs |-> the filesystem after it, err |-> whether it raised].            *)
(***************************************************************************)
Ok(f) == [fs |-> f, err |-> FALSE]

Raise(f) == [fs |-> f, err |-> TRUE]

existsSync(f, p) == Node(f, p).kind # "none"

isDirectory(f, p) == Node(f, p).kind = "dir"

\* mkdirSync(p, { recursive: true }): creates every missing ancestor and p;
\* raises (ENOTDIR / EEXIST), creating nothing, when p or an ancestor is a file.
mkdirSync(f, p) ==
    IF \E q \in Prefixes(p) : Node(f, q).kind = "file"
    THEN Raise(f)
    ELSE Ok([x \in DOMAIN f |-> IF x \in Prefixes(p) /\ f[x].kind = "none" THEN DirNode ELSE f[x]])

\* copyFileSync that removes a file it finds at dest instead of writing
\* over it.
copyFileSync_unlinksExisting(f, src, dest) ==
    IF Node(f, src).kind # "file" \/ Node(f, dest).kind = "dir" \/ Node(f, dirname(dest)).kind # "dir"
    THEN Raise(f)
    ELSE IF Node(f, dest).kind = "file" THEN Ok([f EXCEPT ![dest] = NoNode])
    ELSE Ok([f EXCEPT ![dest] = f[src]])

\* copyFileSync(src, dest): src must be a regular file, dest must not be a
\* directory, and the parent of dest must be a directory.
copyFileSync(f, src, dest) ==
    IF Node(f, src).kind # "file" \/ Node(f, dest).kind = "dir" \/ Node(f, dirname(dest)).kind # "dir"
    THEN Raise(f)
    ELSE Ok([f EXCEPT ![dest] = f[src]])

\* readdirSync(dir): the names present in dir, in the host's listing order.
readdirSync(f, dir, order) == SelectSeq(order, LAMBDA n : existsSync(f, join(dir, <<n>>)))

\* The listing orders of the host: the order of "a" and "sub" is what the
\* copy can observe (".git" is skipped wherever it stands).
Orders == {<<".git", "a", "sub">>, <<"sub", "a", ".git">>}

(***************************************************************************)
(* install.ts: copyDirectory                                               *)
(***************************************************************************)
RECURSIVE copyDirectory(_, _, _, _, _)
RECURSIVE copyDirectoryLoop(_, _, _, _, _, _)

\* copyDirectoryEntry with the force flag forgotten: a file the destination
\* already holds is never overwritten.
copyDirectoryEntry_keepExisting(f, src, dest, force, order, name) ==
    LET srcPath == join(src, <<name>>)
        destPath == join(dest, <<name>>)
    IN  IF name = ".git" THEN Ok(f)
        ELSE IF isDirectory(f, srcPath) THEN copyDirectory(f, srcPath, destPath, force, order)
        ELSE IF existsSync(f, destPath) THEN Ok(f)
        ELSE copyFileSync(f, srcPath, destPath)

copyDirectoryEntry(f, src, dest, force, order, name) ==
    LET srcPath == join(src, <<name>>)
        destPath == join(dest, <<name>>)
    IN  IF name = ".git" THEN Ok(f)
        ELSE IF isDirectory(f, srcPath) THEN copyDirectory(f, srcPath, destPath, force, order)
        ELSE IF ~force /\ existsSync(f, destPath) THEN Ok(f)
        ELSE copyFileSync(f, srcPath, destPath)

copyDirectoryLoop(f, src, dest, force, order, entries) ==
    IF entries = <<>> THEN Ok(f)
    ELSE LET r == copyDirectoryEntry(f, src, dest, force, order, Head(entries))
         IN  IF r.err THEN r ELSE copyDirectoryLoop(r.fs, src, dest, force, order, Tail(entries))

copyDirectory(f, src, dest, force, order) ==
    LET m == IF ~existsSync(f, dest) THEN mkdirSync(f, dest) ELSE Ok(f)
    IN  IF m.err THEN m
        ELSE IF ~isDirectory(m.fs, src) THEN Raise(m.fs)
        ELSE copyDirectoryLoop(m.fs, src, dest, force, order, readdirSync(m.fs, src, order))

(***************************************************************************)
(* backup.ts: copyDirectory of the backup command (always overwrites)      *)
(***************************************************************************)
RECURSIVE backup_copyDirectory(_, _, _, _)
RECURSIVE backup_copyDirectoryLoop(_, _, _, _, _)

\* backup's copyDirectory loop body without the test on the name ".git".
backup_copyDirectoryEntry_withGit(f, src, dest, order, name) ==
    LET srcPath == join(src, <<name>>)
        destPath == join(dest, <<name>>)
    IN  IF isDirectory(f, srcPath) THEN backup_copyDirectory(f, srcPath, destPath, order)
        ELSE copyFileSync(f, srcPath, destPath)

backup_copyDirectoryEntry(f, src, dest, order, name) ==
    LET srcPath == join(src, <<name>>)
        destPath == join(dest, <<name>>)
    IN  IF name = ".git" THEN Ok(f)
        ELSE IF isDirectory(f, srcPath) THEN backup_copyDirectory(f, srcPath, destPath, order)
        ELSE copyFileSync(f, srcPath, destPath)

backup_copyDirectoryLoop(f, src, dest, order, entries) ==
    IF entries = <<>> THEN Ok(f)
    ELSE LET r == backup_copyDirectoryEntry(f, src, dest, order, Head(entries))
         IN  IF r.err THEN r ELSE backup_copyDirectoryLoop(r.fs, src, dest, order, Tail(entries))

backup_copyDirectory(f, src, dest, order) ==
    LET m == IF ~existsSync(f, dest) THEN mkdirSync(f, dest) ELSE Ok(f)
    IN  IF m.err THEN m
        ELSE IF ~isDirectory(m.fs, src) THEN Raise(m.fs)
        ELSE backup_copyDirectoryLoop(m.fs, src, dest, order, readdirSync(m.fs, src, order))

(***************************************************************************)
(* backup.ts (sync part): copyDirectory of the sync command                *)
(***************************************************************************)
RECURSIVE sync_copyDirectory(_, _, _, _)
RECURSIVE sync_copyDirectoryLoop(_, _, _, _, _)

sync_copyDirectoryEntry(f, src, dest, order, name) ==
    LET srcPath == join(src, <<name>>)
        destPath == join(dest, <<name>>)
    IN  IF name = ".git" THEN Ok(f)
        ELSE IF isDirectory(f, srcPath) THEN sync_copyDirectory(f, srcPath, destPath, order)
        ELSE copyFileSync(f, srcPath, destPath)

sync_copyDirectoryLoop(f, src, dest, order, entries) ==
    IF entries = <<>> THEN Ok(f)
    ELSE LET r == sync_copyDirectoryEntry(f, src, dest, order, Head(entries))
         IN  IF r.err THEN r ELSE sync_copyDirectoryLoop(r.fs, src, dest, order, Tail(entries))

sync_copyDirectory(f, src, dest, order) ==
    LET m == IF ~existsSync(f, dest) THEN mkdirSync(f, dest) ELSE Ok(f)
    IN  IF m.err THEN m
        ELSE IF ~isDirectory(m.fs, src) THEN Raise(m.fs)
        ELSE sync_copyDirectoryLoop(m.fs, src, dest, order, readdirSync(m.fs, src, order))

(***************************************************************************)
(* utils/diff.ts                                                           *)
(***************************************************************************)
\* The text of a file: a header line shared by all files, then one line
\* that tells the contents apart.
Lines(c) == <<0, c>>

\* readFileSync(p, "utf-8"): [val |-> the text, err |-> raised]; raises
\* when p is absent (ENOENT) or a directory (EISDIR).
readFileSync(f, p) ==
    IF Node(f, p).kind = "file" THEN [val |-> Lines(Node(f, p).data), err |-> FALSE]
    ELSE [val |-> <<>>, err |-> TRUE]

RECURSIVE CommonPrefixLen(_, _)
CommonPrefixLen(a, b) ==
    IF a = <<>> \/ b = <<>> \/ Head(a) # Head(b) THEN 0
    ELSE 1 + CommonPrefixLen(Tail(a), Tail(b))

Change(value, added, removed) == [value |-> value, added |-> added, removed |-> removed]

\* diffLines of the "diff" package on line sequences: the common leading
\* lines unchanged, then the lines only in the old text removed, then the
\* lines only in the new text added; empty runs are not reported.
diffLines(oldText, newText) ==
    LET n == CommonPrefixLen(oldText, newText)
        common == SubSeq(oldText, 1, n)
        gone == SubSeq(oldText, n + 1, Len(oldText))
        come == SubSeq(newText, n + 1, Len(newText))
    IN  (IF common = <<>> THEN <<>> ELSE <<Change(common, FALSE, FALSE)>>)
        \o (IF gone = <<>> THEN <<>> ELSE <<Change(gone, FALSE, TRUE)>>)
        \o (IF come = <<>> THEN <<>> ELSE <<Change(come, TRUE, FALSE)>>)

FileDiff(repoPath, installedPath, changes, onlyInRepo, onlyInSystem) ==
    [path |-> repoPath, repoPath |-> repoPath, installedPath |-> installedPath, changes |-> changes, onlyInRepo |-> onlyInRepo, onlyInSystem |-> onlyInSystem]

\* compareFiles returning null for two files whose contents are equal.
compareFiles_equalIsNull(f, repoPath, installedPath) ==
    LET onlyInRepo == existsSync(f, repoPath) /\ ~existsSync(f, installedPath)
        onlyInSystem == ~existsSync(f, repoPath) /\ existsSync(f, installedPath)
        repoContent == readFileSync(f, repoPath)
        installedContent == readFileSync(f, installedPath)
    IN  IF ~existsSync(f, repoPath) /\ ~existsSync(f, installedPath) THEN [val |-> <<>>, err |-> FALSE]
        ELSE IF onlyInRepo \/ onlyInSystem
             THEN [val |-> <<FileDiff(repoPath, installedPath, <<>>, onlyInRepo, onlyInSystem)>>, err |-> FALSE]
        ELSE IF repoContent.err \/ installedContent.err THEN [val |-> <<>>, err |-> TRUE]
        ELSE IF repoContent.val = installedContent.val THEN [val |-> <<>>, err |-> FALSE]
        ELSE [val |-> <<FileDiff(repoPath, installedPath, diffLines(repoContent.val, installedContent.val), FALSE, FALSE)>>, err |-> FALSE]

\* compareFiles with the two existence tests assigned to the wrong flags.
compareFiles_flagsSwapped(f, repoPath, installedPath) ==
    LET onlyInRepo == ~existsSync(f, repoPath) /\ existsSync(f, installedPath)
        onlyInSystem == existsSync(f, repoPath) /\ ~existsSync(f, installedPath)
        repoContent == readFileSync(f, repoPath)
        installedContent == readFileSync(f, installedPath)
    IN  IF ~existsSync(f, repoPath) /\ ~existsSync(f, installedPath) THEN [val |-> <<>>, err |-> FALSE]
        ELSE IF onlyInRepo \/ onlyInSystem
             THEN [val |-> <<FileDiff(repoPath, installedPath, <<>>, onlyInRepo, onlyInSystem)>>, err |-> FALSE]
        ELSE IF repoContent.err \/ installedContent.err THEN [val |-> <<>>, err |-> TRUE]
        ELSE [val |-> <<FileDiff(repoPath, installedPath, diffLines(repoContent.val, installedContent.val), FALSE, FALSE)>>, err |-> FALSE]

\* compareFiles: [val |-> <<>> for null, <<d>> for a FileDiff d, err |-> raised].
compareFiles(f, repoPath, installedPath) ==
    LET onlyInRepo == existsSync(f, repoPath) /\ ~existsSync(f, installedPath)
        onlyInSystem == ~existsSync(f, repoPath) /\ existsSync(f, installedPath)
        repoContent == readFileSync(f, repoPath)
        installedContent == readFileSync(f, installedPath)
    IN  IF ~existsSync(f, repoPath) /\ ~existsSync(f, installedPath) THEN [val |-> <<>>, err |-> FALSE]
        ELSE IF onlyInRepo \/ onlyInSystem
             THEN [val |-> <<FileDiff(repoPath, installedPath, <<>>, onlyInRepo, onlyInSystem)>>, err |-> FALSE]
        ELSE IF repoContent.err \/ installedContent.err THEN [val |-> <<>>, err |-> TRUE]
        ELSE [val |-> <<FileDiff(repoPath, installedPath, diffLines(repoContent.val, installedContent.val), FALSE, FALSE)>>, err |-> FALSE]

\* getAllFiles: [val |-> the files below dir, in listing order, err |-> raised].
RECURSIVE getAllFiles(_, _, _)
RECURSIVE getAllFilesLoop(_, _, _, _)

getAllFilesLoop(f, dir, order, entries) ==
    IF entries = <<>> THEN [val |-> <<>>, err |-> FALSE]
    ELSE LET fullPath == join(dir, <<Head(entries)>>)
             here == IF Head(entries) = ".git" THEN [val |-> <<>>, err |-> FALSE]
                     ELSE IF isDirectory(f, fullPath) THEN getAllFiles(f, fullPath, order)
                     ELSE [val |-> <<fullPath>>, err |-> FALSE]
             rest == getAllFilesLoop(f, dir, order, Tail(entries))
         IN  IF here.err \/ rest.err THEN [val |-> <<>>, err |-> TRUE]
             ELSE [val |-> here.val \o rest.val, err |-> FALSE]

getAllFiles(f, dir, order) ==
    IF ~existsSync(f, dir) THEN [val |-> <<>>, err |-> FALSE]
    ELSE IF ~isDirectory(f, dir) THEN [val |-> <<>>, err |-> TRUE]
    ELSE getAllFilesLoop(f, dir, order, readdirSync(f, dir, order))

\* file.replace(dir, ""): the path of file relative to dir.
StripDir(file, dir) == SubSeq(file, Len(dir) + 1, Len(file))

SeqToSet(s) == {s[i] : i \in 1..Len(s)}

\* Collecting the relative paths in an array instead of a Set.
AddAll_keepsDuplicates(acc, s) == acc \o s

\* Adding the elements of s to a Set that keeps insertion order.
RECURSIVE AddAll(_, _)
AddAll(acc, s) ==
    IF s = <<>> THEN acc
    ELSE AddAll(IF Head(s) \in SeqToSet(acc) THEN acc ELSE Append(acc, Head(s)), Tail(s))

RECURSIVE compareEach(_, _, _, _)
compareEach(f, repoDir, installedDir, rels) ==
    IF rels = <<>> THEN [val |-> <<>>, err |-> FALSE]
    ELSE LET diff == compareFiles(f, join(repoDir, Head(rels)), join(installedDir, Head(rels)))
             rest == compareEach(f, repoDir, installedDir, Tail(rels))
         IN  IF diff.err \/ rest.err THEN [val |-> <<>>, err |-> TRUE]
             ELSE [val |-> diff.val \o rest.val, err |-> FALSE]

compareDirectories(f, repoDir, installedDir, order) ==
    LET repoFiles == getAllFiles(f, repoDir, order)
        installedFiles == getAllFiles(f, installedDir, order)
        allRelativePaths == AddAll(AddAll(<<>>, [i \in 1..Len(repoFiles.val) |-> StripDir(repoFiles.val[i], repoDir)]), [i \in 1..Len(installedFiles.val) |-> StripDir(installedFiles.val[i], installedDir)])
    IN  IF ~existsSync(f, repoDir) /\ ~existsSync(f, installedDir) THEN [val |-> <<>>, err |-> FALSE]
        ELSE IF ~existsSync(f, repoDir)
             THEN [val |-> [i \in 1..Len(installedFiles.val) |-> [path |-> installedFiles.val[i], repoPath |-> join(repoDir, StripDir(installedFiles.val[i], installedDir)), installedPath |-> installedFiles.val[i], changes |-> <<>>, onlyInRepo |-> FALSE, onlyInSystem |-> TRUE]], err |-> installedFiles.err]
        ELSE IF ~existsSync(f, installedDir)
             THEN [val |-> [i \in 1..Len(repoFiles.val) |-> [path |-> repoFiles.val[i], repoPath |-> repoFiles.val[i], installedPath |-> join(installedDir, StripDir(repoFiles.val[i], repoDir)), changes |-> <<>>, onlyInRepo |-> TRUE, onlyInSystem |-> FALSE]], err |-> repoFiles.err]
        ELSE IF repoFiles.err \/ installedFiles.err THEN [val |-> <<>>, err |-> TRUE]
        ELSE compareEach(f, repoDir, installedDir, allRelativePaths)

hasDifferences(diff) ==
    IF diff.onlyInRepo \/ diff.onlyInSystem THEN TRUE
    ELSE \E i \in 1..Len(diff.changes) : diff.changes[i].added \/ diff.changes[i].removed

(***************************************************************************)
(* verify.ts                                                               *)
(***************************************************************************)
VerifyResult(name, installed, message, warning, optional, installUrl) ==
    [name |-> name, installed |-> installed, message |-> message, warning |-> warning, optional |-> optional, installUrl |-> installUrl]

\* checkCommand: `command -v c` succeeds iff c is on the search path.
checkCommand(t, command) == command \in t

verifyHelix(t) == VerifyResult("Helix IDE (hx)", checkCommand(t, "hx"), "", FALSE, FALSE, "url:helix")

verifyTmux(t) == VerifyResult("tmux", checkCommand(t, "tmux"), "", FALSE, FALSE, "url:tmux")

verifyNvm(f) == VerifyResult("nvm", existsSync(f, NvmPath), IF existsSync(f, NvmPath) THEN "" ELSE "~/.nvm not found", FALSE, FALSE, "url:nvm")

\* verifyFzf without its installUrl.
verifyFzf_noInstallUrl(t) == VerifyResult("fzf", checkCommand(t, "fzf"), "", FALSE, FALSE, "")

verifyFzf(t) == VerifyResult("fzf", checkCommand(t, "fzf"), "", FALSE, FALSE, "url:fzf")

verifyZoxide(f) == VerifyResult("zoxide", existsSync(f, ZoxidePath), IF existsSync(f, ZoxidePath) THEN "" ELSE "~/.local/bin/zoxide not found", FALSE, FALSE, "url:zoxide")

verifyStarship(t) == VerifyResult("starship", checkCommand(t, "starship"), "", FALSE, FALSE, "url:starship")

\* verifyBashrc whose catch block reports the config as not installed.
verifyBashrc_errorNotInstalled(f) ==
    LET installedContent == readFileSync(f, SysBashrc)
        configContent == readFileSync(f, RepoBashrc)
    IN  IF ~existsSync(f, SysBashrc) THEN VerifyResult("bashrc", FALSE, "~/.bashrc not found", FALSE, FALSE, "")
        ELSE IF installedContent.err \/ configContent.err THEN VerifyResult("bashrc", FALSE, "Error comparing bashrc", TRUE, FALSE, "")
        ELSE IF installedContent.val # configContent.val THEN VerifyResult("bashrc", TRUE, "differs from configs/bashrc", TRUE, FALSE, "")
        ELSE VerifyResult("bashrc", TRUE, "", FALSE, FALSE, "")

verifyBashrc(f) ==
    LET installedContent == readFileSync(f, SysBashrc)
        configContent == readFileSync(f, RepoBashrc)
    IN  IF ~existsSync(f, SysBashrc) THEN VerifyResult("bashrc", FALSE, "~/.bashrc not found", FALSE, FALSE, "")
        ELSE IF installedContent.err \/ configContent.err THEN VerifyResult("bashrc", TRUE, "Error comparing bashrc", TRUE, FALSE, "")
        ELSE IF installedContent.val # configContent.val THEN VerifyResult("bashrc", TRUE, "differs from configs/bashrc", TRUE, FALSE, "")
        ELSE VerifyResult("bashrc", TRUE, "", FALSE, FALSE, "")

verifyHelixConfig(f) ==
    IF ~existsSync(f, SysHelix) THEN VerifyResult("helix", FALSE, "~/.config/helix not found", FALSE, FALSE, "")
    ELSE VerifyResult("helix", TRUE, "", FALSE, FALSE, "")

verifyTmuxConfig(f) ==
    IF ~existsSync(f, SysTmux) THEN VerifyResult("tmux", FALSE, "~/.config/tmux/tmux.conf not found", FALSE, FALSE, "")
    ELSE VerifyResult("tmux", TRUE, "", FALSE, FALSE, "")

verifyGh(t) == VerifyResult("gh (GitHub CLI)", checkCommand(t, "gh"), IF checkCommand(t, "gh") THEN "" ELSE "Recommended: gh", FALSE, TRUE, "url:gh")

verifyGitHubCopilotCli(t) == VerifyResult("copilot (GitHub Copilot CLI)", checkCommand(t, "copilot"), IF checkCommand(t, "copilot") THEN "" ELSE "Recommended: copilot", FALSE, TRUE, "url:copilot")

verifyHtop(t) == VerifyResult("htop", checkCommand(t, "htop"), IF checkCommand(t, "htop") THEN "" ELSE "Recommended: htop", FALSE, TRUE, "url:htop")

\* verifyAll with the config checks of helix and tmux in the place of the
\* tool checks.
verifyAll_configChecks(f, t) == <<verifyHelixConfig(f), verifyTmuxConfig(f), verifyNvm(f), verifyFzf(t), verifyZoxide(f), verifyStarship(t), verifyBashrc(f), verifyGh(t), verifyGitHubCopilotCli(t), verifyHtop(t)>>

verifyAll(f, t) == <<verifyHelix(t), verifyTmux(t), verifyNvm(f), verifyFzf(t), verifyZoxide(f), verifyStarship(t), verifyBashrc(f), verifyGh(t), verifyGitHubCopilotCli(t), verifyHtop(t)>>

\* verify's displayResults without the filter on optional tools: any
\* result that is not installed fails the run.
verify_displayResults_optionalCounted(rs) ==
    LET allInstalled == \A i \in 1..Len(rs) : rs[i].installed
    IN  IF allInstalled THEN 0 ELSE 1

\* displayResults of verify: the exit code it leaves (1 = process.exit(1)).
verify_displayResults(rs) ==
    LET allInstalled == \A i \in 1..Len(rs) : ~(rs[i].optional /\ ~rs[i].installed) => ~(~rs[i].installed /\ ~rs[i].optional)
    IN  IF allInstalled THEN 0 ELSE 1

(***************************************************************************)
(* install.ts: the per-config install functions.  Each returns             *)
(* [fs |-> the filesystem after it, result |-> its InstallResult].         *)
(***************************************************************************)
InstallResult(name, success, skipped, message) == [name |-> name, success |-> success, skipped |-> skipped, message |-> message]

\* sourceBase that never looks at --from.
sourceBase_alwaysConfigs(from) == join(repoRoot, <<"configs">>)

\* from is "" when --from is not given.
sourceBase(from) == IF from # "" THEN join(repoRoot, <<"backups", from>>) ELSE join(repoRoot, <<"configs">>)

\* installHelix without the early return on an existing destination: the
\* directory copy runs and applies its per-file rule.
installHelix_noEarlySkip(f, dryrun, force, from, order) ==
    LET source == join(sourceBase(from), <<"helix">>)
        dest == join(homedir, <<".config", "helix">>)
        c == IF ~dryrun THEN copyDirectory(f, source, dest, force, order) ELSE Ok(f)
    IN  IF ~existsSync(f, source) THEN [fs |-> f, result |-> InstallResult("helix", FALSE, FALSE, "not found")]
        ELSE IF c.err THEN [fs |-> c.fs, result |-> InstallResult("helix", FALSE, FALSE, "error")]
        ELSE [fs |-> c.fs, result |-> InstallResult("helix", TRUE, FALSE, IF dryrun THEN "Would install" ELSE "")]

installHelix(f, dryrun, force, from, order) ==
    LET source == join(sourceBase(from), <<"helix">>)
        dest == join(homedir, <<".config", "helix">>)
        c == IF ~dryrun THEN copyDirectory(f, source, dest, force, order) ELSE Ok(f)
    IN  IF ~existsSync(f, source) THEN [fs |-> f, result |-> InstallResult("helix", FALSE, FALSE, "not found")]
        ELSE IF ~force /\ existsSync(f, dest) THEN [fs |-> f, result |-> InstallResult("helix", TRUE, TRUE, "already exists")]
        ELSE IF c.err THEN [fs |-> c.fs, result |-> InstallResult("helix", FALSE, FALSE, "error")]
        ELSE [fs |-> c.fs, result |-> InstallResult("helix", TRUE, FALSE, IF dryrun THEN "Would install" ELSE "")]

installTmux(f, dryrun, force, from) ==
    LET source == join(sourceBase(from), <<"tmux", "tmux.conf">>)
        dest == join(homedir, <<".config", "tmux", "tmux.conf">>)
        parentDir == dirname(dest)
        m == IF ~existsSync(f, parentDir) THEN mkdirSync(f, parentDir) ELSE Ok(f)
        c == IF dryrun THEN Ok(f) ELSE IF m.err THEN m ELSE copyFileSync(m.fs, source, dest)
    IN  IF ~existsSync(f, source) THEN [fs |-> f, result |-> InstallResult("tmux", FALSE, FALSE, "not found")]
        ELSE IF ~force /\ existsSync(f, dest) THEN [fs |-> f, result |-> InstallResult("tmux", TRUE, TRUE, "already exists")]
        ELSE IF c.err THEN [fs |-> c.fs, result |-> InstallResult("tmux", FALSE, FALSE, "error")]
        ELSE [fs |-> c.fs, result |-> InstallResult("tmux", TRUE, FALSE, IF dryrun THEN "Would install" ELSE "")]

\* installBashrc without the test on an existing destination.
installBashrc_noSkip(f, dryrun, force, from) ==
    LET source == join(sourceBase(from), <<"bashrc">>)
        dest == join(homedir, <<".bashrc">>)
        c == IF ~dryrun THEN copyFileSync(f, source, dest) ELSE Ok(f)
    IN  IF ~existsSync(f, source) THEN [fs |-> f, result |-> InstallResult("bashrc", FALSE, FALSE, "not found")]
        ELSE IF c.err THEN [fs |-> c.fs, result |-> InstallResult("bashrc", FALSE, FALSE, "error")]
        ELSE [fs |-> c.fs, result |-> InstallResult("bashrc", TRUE, FALSE, IF dryrun THEN "Would install" ELSE "")]

installBashrc(f, dryrun, force, from) ==
    LET source == join(sourceBase(from), <<"bashrc">>)
        dest == join(homedir, <<".bashrc">>)
        c == IF ~dryrun THEN copyFileSync(f, source, dest) ELSE Ok(f)
    IN  IF ~existsSync(f, source) THEN [fs |-> f, result |-> InstallResult("bashrc", FALSE, FALSE, "not found")]
        ELSE IF ~force /\ existsSync(f, dest) THEN [fs |-> f, result |-> InstallResult("bashrc", TRUE, TRUE, "already exists")]
        ELSE IF c.err THEN [fs |-> c.fs, result |-> InstallResult("bashrc", FALSE, FALSE, "error")]
        ELSE [fs |-> c.fs, result |-> InstallResult("bashrc", TRUE, FALSE, IF dryrun THEN "Would install" ELSE "")]

\* getVerifyResults run on the system as it was before the copies.
getVerifyResults_beforeCopies(f, items) ==
    [i \in 1..Len(items) |-> IF items[i] = "helix" THEN verifyHelixConfig(fs0) ELSE IF items[i] = "tmux" THEN verifyTmuxConfig(fs0) ELSE verifyBashrc(fs0)]

RECURSIVE getVerifyResults(_, _)
getVerifyResults(f, items) ==
    IF items = <<>> THEN <<>>
    ELSE (IF Head(items) = "helix" THEN <<verifyHelixConfig(f)>>
          ELSE IF Head(items) = "tmux" THEN <<verifyTmuxConfig(f)>>
          ELSE IF Head(items) = "bashrc" THEN <<verifyBashrc(f)>>
          ELSE <<>>) \o getVerifyResults(f, Tail(items))

\* showConfigDiffs that compares the source the install copies from.
showConfigDiffs_ofInstallSource(f, order) ==
    LET bashrcDiff == compareFiles(f, join(sourceBase(cmd.from), <<"bashrc">>), join(homedir, <<".bashrc">>))
        helixDiffs == compareDirectories(f, join(sourceBase(cmd.from), <<"helix">>), join(homedir, <<".config", "helix">>), order)
        tmuxDiff == compareFiles(f, join(sourceBase(cmd.from), <<"tmux", "tmux.conf">>), join(homedir, <<".config", "tmux", "tmux.conf">>))
    IN  IF bashrcDiff.err \/ helixDiffs.err \/ tmuxDiff.err THEN [val |-> <<>>, err |-> TRUE]
        ELSE [val |-> bashrcDiff.val \o helixDiffs.val \o tmuxDiff.val, err |-> FALSE]

\* showConfigDiffs: [val |-> the diffs handed to displayDiff, err |-> raised].
showConfigDiffs(f, order) ==
    LET bashrcDiff == compareFiles(f, join(repoRoot, <<"configs", "bashrc">>), join(homedir, <<".bashrc">>))
        helixDiffs == compareDirectories(f, join(repoRoot, <<"configs", "helix">>), join(homedir, <<".config", "helix">>), order)
        tmuxDiff == compareFiles(f, join(repoRoot, <<"configs", "tmux", "tmux.conf">>), join(homedir, <<".config", "tmux", "tmux.conf">>))
    IN  IF bashrcDiff.err \/ helixDiffs.err \/ tmuxDiff.err THEN [val |-> <<>>, err |-> TRUE]
        ELSE [val |-> bashrcDiff.val \o helixDiffs.val \o tmuxDiff.val, err |-> FALSE]

\* install's displayResults without the dry-run branch of its verdict.
install_displayResults_noDryRunBranch(rs, dryrun) ==
    LET allSucceeded == \A i \in 1..Len(rs) : rs[i].success
    IN  IF allSucceeded THEN 0 ELSE 1

\* The verdict of install's displayResults: the exit code it leaves.
install_displayResults(rs, dryrun) ==
    LET allSucceeded == \A i \in 1..Len(rs) : rs[i].success
    IN  IF dryrun THEN 0 ELSE IF allSucceeded THEN 0 ELSE 1

(***************************************************************************)
(* backup.ts (sync part): the per-config sync functions                    *)
(***************************************************************************)
SyncResult(name, success, message) == [name |-> name, success |-> success, message |-> message]

\* syncHelix whose catch block returns success: true with the error text.
syncHelix_catchReportsSuccess(f, dryrun, order) ==
    LET source == join(homedir, <<".config", "helix">>)
        dest == join(repoRoot, <<"configs", "helix">>)
        c == IF ~dryrun THEN sync_copyDirectory(f, source, dest, order) ELSE Ok(f)
    IN  IF ~existsSync(f, source) THEN [fs |-> f, result |-> SyncResult("helix", FALSE, "not found")]
        ELSE IF c.err THEN [fs |-> c.fs, result |-> SyncResult("helix", TRUE, "error")]
        ELSE [fs |-> c.fs, result |-> SyncResult("helix", TRUE, IF dryrun THEN "Would sync" ELSE "")]

syncHelix(f, dryrun, order) ==
    LET source == join(homedir, <<".config", "helix">>)
        dest == join(repoRoot, <<"configs", "helix">>)
        c == IF ~dryrun THEN sync_copyDirectory(f, source, dest, order) ELSE Ok(f)
    IN  IF ~existsSync(f, source) THEN [fs |-> f, result |-> SyncResult("helix", FALSE, "not found")]
        ELSE IF c.err THEN [fs |-> c.fs, result |-> SyncResult("helix", FALSE, "error")]
        ELSE [fs |-> c.fs, result |-> SyncResult("helix", TRUE, IF dryrun THEN "Would sync" ELSE "")]

\* syncTmux with the arguments of copyFileSync in the wrong order.
syncTmux_copiesBackwards(f, dryrun) ==
    LET source == join(homedir, <<".config", "tmux", "tmux.conf">>)
        dest == join(repoRoot, <<"configs", "tmux", "tmux.conf">>)
        parentDir == dirname(dest)
        m == IF ~existsSync(f, parentDir) THEN mkdirSync(f, parentDir) ELSE Ok(f)
        c == IF dryrun THEN Ok(f) ELSE IF m.err THEN m ELSE copyFileSync(m.fs, dest, source)
    IN  IF ~existsSync(f, source) THEN [fs |-> f, result |-> SyncResult("tmux", FALSE, "not found")]
        ELSE IF c.err THEN [fs |-> c.fs, result |-> SyncResult("tmux", FALSE, "error")]
        ELSE [fs |-> c.fs, result |-> SyncResult("tmux", TRUE, IF dryrun THEN "Would sync" ELSE "")]

\* syncTmux without the creation of the parent directory.
syncTmux_noParentDir(f, dryrun) ==
    LET source == join(homedir, <<".config", "tmux", "tmux.conf">>)
        dest == join(repoRoot, <<"configs", "tmux", "tmux.conf">>)
        c == IF dryrun THEN Ok(f) ELSE copyFileSync(f, source, dest)
    IN  IF ~existsSync(f, source) THEN [fs |-> f, result |-> SyncResult("tmux", FALSE, "not found")]
        ELSE IF c.err THEN [fs |-> c.fs, result |-> SyncResult("tmux", FALSE, "error")]
        ELSE [fs |-> c.fs, result |-> SyncResult("tmux", TRUE, IF dryrun THEN "Would sync" ELSE "")]

syncTmux(f, dryrun) ==
    LET source == join(homedir, <<".config", "tmux", "tmux.conf">>)
        dest == join(repoRoot, <<"configs", "tmux", "tmux.conf">>)
        parentDir == dirname(dest)
        m == IF ~existsSync(f, parentDir) THEN mkdirSync(f, parentDir) ELSE Ok(f)
        c == IF dryrun THEN Ok(f) ELSE IF m.err THEN m ELSE copyFileSync(m.fs, source, dest)
    IN  IF ~existsSync(f, source) THEN [fs |-> f, result |-> SyncResult("tmux", FALSE, "not found")]
        ELSE IF c.err THEN [fs |-> c.fs, result |-> SyncResult("tmux", FALSE, "error")]
        ELSE [fs |-> c.fs, result |-> SyncResult("tmux", TRUE, IF dryrun THEN "Would sync" ELSE "")]

\* syncBashrc with the directory creation and the copy outside the test on
\* dryrun.
syncBashrc_dryrunCopies(f, dryrun) ==
    LET source == join(homedir, <<".bashrc">>)
        dest == join(repoRoot, <<"configs", "bashrc">>)
        parentDir == dirname(dest)
        m == IF ~existsSync(f, parentDir) THEN mkdirSync(f, parentDir) ELSE Ok(f)
        c == IF m.err THEN m ELSE copyFileSync(m.fs, source, dest)
    IN  IF ~existsSync(f, source) THEN [fs |-> f, result |-> SyncResult("bashrc", FALSE, "not found")]
        ELSE IF c.err THEN [fs |-> c.fs, result |-> SyncResult("bashrc", FALSE, "error")]
        ELSE [fs |-> c.fs, result |-> SyncResult("bashrc", TRUE, IF dryrun THEN "Would sync" ELSE "")]

syncBashrc(f, dryrun) ==
    LET source == join(homedir, <<".bashrc">>)
        dest == join(repoRoot, <<"configs", "bashrc">>)
        parentDir == dirname(dest)
        m == IF ~existsSync(f, parentDir) THEN mkdirSync(f, parentDir) ELSE Ok(f)
        c == IF dryrun THEN Ok(f) ELSE IF m.err THEN m ELSE copyFileSync(m.fs, source, dest)
    IN  IF ~existsSync(f, source) THEN [fs |-> f, result |-> SyncResult("bashrc", FALSE, "not found")]
        ELSE IF c.err THEN [fs |-> c.fs, result |-> SyncResult("bashrc", FALSE, "error")]
        ELSE [fs |-> c.fs, result |-> SyncResult("bashrc", TRUE, IF dryrun THEN "Would sync" ELSE "")]

\* The verdict of sync's displayResults: the exit code it leaves.
sync_displayResults(rs, dryrun) ==
    LET allSucceeded == \A i \in 1..Len(rs) : rs[i].success
    IN  IF dryrun THEN 0 ELSE IF allSucceeded THEN 0 ELSE 1

(***************************************************************************)
(* backup.ts: backup items and the body of performBackup's loop            *)
(***************************************************************************)
BackupItem(source, destination, type, name) == [source |-> source, destination |-> destination, type |-> type, name |-> name]

getHelixBackupItem(backupDir) == BackupItem(join(homedir, <<".config", "helix">>), join(backupDir, <<"helix">>), "directory", "helix")

getTmuxBackupItem(backupDir) == BackupItem(join(homedir, <<".config", "tmux", "tmux.conf">>), join(backupDir, <<"tmux", "tmux.conf">>), "file", "tmux")

getBashrcBackupItem(backupDir) == BackupItem(join(homedir, <<".bashrc">>), join(backupDir, <<"bashrc">>), "file", "bashrc")

getBackupItems(backupDir) == <<getHelixBackupItem(backupDir), getTmuxBackupItem(backupDir), getBashrcBackupItem(backupDir)>>

BackupResult(name, success, message) == [name |-> name, success |-> success, message |-> message]

\* performBackup's loop body leaving a file of an earlier backup in place.
performBackupItem_keepsOldFile(f, item, order) ==
    LET parentDir == dirname(item.destination)
        m == IF ~existsSync(f, parentDir) THEN mkdirSync(f, parentDir) ELSE Ok(f)
        c == IF item.type = "file"
             THEN (IF m.err THEN m ELSE IF existsSync(m.fs, item.destination) THEN Ok(m.fs) ELSE copyFileSync(m.fs, item.source, item.destination))
             ELSE backup_copyDirectory(f, item.source, item.destination, order)
    IN  IF ~existsSync(f, item.source) THEN [fs |-> f, result |-> BackupResult(item.name, FALSE, "not found, skipped")]
        ELSE IF c.err THEN [fs |-> c.fs, result |-> BackupResult(item.name, FALSE, "error")]
        ELSE [fs |-> c.fs, result |-> BackupResult(item.name, TRUE, "")]

\* One iteration of performBackup's loop, for one item.
performBackupItem(f, item, order) ==
    LET parentDir == dirname(item.destination)
        m == IF ~existsSync(f, parentDir) THEN mkdirSync(f, parentDir) ELSE Ok(f)
        c == IF item.type = "file"
             THEN (IF m.err THEN m ELSE copyFileSync(m.fs, item.source, item.destination))
             ELSE backup_copyDirectory(f, item.source, item.destination, order)
    IN  IF ~existsSync(f, item.source) THEN [fs |-> f, result |-> BackupResult(item.name, FALSE, "not found, skipped")]
        ELSE IF c.err THEN [fs |-> c.fs, result |-> BackupResult(item.name, FALSE, "error")]
        ELSE [fs |-> c.fs, result |-> BackupResult(item.name, TRUE, "")]

\* displayBackupResults that counts as skipped only the entries that were
\* not found.
displayBackupResults_errorsUncounted(rs) ==
    [backedUpCount |-> Cardinality({i \in 1..Len(rs) : rs[i].success}), skippedCount |-> Cardinality({i \in 1..Len(rs) : ~rs[i].success /\ rs[i].message = "not found, skipped"})]

\* displayBackupResults: the two counts it prints.
displayBackupResults(rs) ==
    [backedUpCount |-> Cardinality({i \in 1..Len(rs) : rs[i].success}), skippedCount |-> Cardinality({i \in 1..Len(rs) : ~rs[i].success})]

(***************************************************************************)
(* Initial filesystems.  A command copies from one location (its source)   *)
(* to another (its destination); the initial filesystem draws the state of *)
(* each config at the source and at the destination from the sets below.   *)
(***************************************************************************)
\* A directory tree by the nodes at its relative paths.
Tree(root, a, sub, suba, subgit, git, gita) ==
    (<<>> :> root) @@ (<<"a">> :> a) @@ (<<"sub">> :> sub) @@ (<<"sub", "a">> :> suba) @@ (<<"sub", ".git">> :> subgit) @@ (<<".git">> :> git) @@ (<<".git", "a">> :> gita)

NoTree == Tree(NoNode, NoNode, NoNode, NoNode, NoNode, NoNode, NoNode)

\* A source tree with a file, a subdirectory and .git at both depths.
FullTree == Tree(DirNode, FileNode(1), DirNode, FileNode(1), FileNode(1), DirNode, FileNode(1))

\* A source tree in which "sub" is a regular file.
FlatTree == Tree(DirNode, FileNode(1), FileNode(1), NoNode, NoNode, NoNode, NoNode)

\* A destination tree that holds "a" and a .git of its own, and no "sub".
PartialTree(c) == Tree(DirNode, FileNode(c), NoNode, NoNode, NoNode, DirNode, FileNode(c))

\* A destination tree in which "a" is a directory.
ConflictTree == Tree(DirNode, DirNode, NoNode, NoNode, NoNode, NoNode, NoNode)

SrcTrees == {NoTree, FullTree, FlatTree}

DstTrees == {NoTree, ConflictTree} \cup {PartialTree(c) : c \in Contents}

SrcFiles == {NoNode, FileNode(1)}

DstFiles == {NoNode, DirNode} \cup {FileNode(c) : c \in Contents}

\* The nodes of one location: a bashrc file, a tmux.conf below its parent
\* directory, and a helix tree.
Location(bashrcPath, tmuxPath, helixRoot, b, t, h) ==
    (bashrcPath :> b) @@ (dirname(tmuxPath) :> (IF t = NoNode THEN NoNode ELSE DirNode)) @@ (tmuxPath :> t) @@ [p \in TreePaths(helixRoot) |-> h[StripDir(p, helixRoot)]]

SysLocation(b, t, h) == Location(SysBashrc, SysTmux, SysHelix, b, t, h) @@ (NvmPath :> NoNode) @@ (ZoxidePath :> NoNode)

RepoLocation(b, t, h) == Location(RepoBashrc, RepoTmux, RepoHelix, b, t, h)

\* backups/<Today>: absent, or a directory holding a snapshot.
BackupLocation(present, b, t, h) ==
    (BackupDir(Today) :> (IF present THEN DirNode ELSE NoNode)) @@ Location(join(BackupDir(Today), <<"bashrc">>), join(BackupDir(Today), <<"tmux", "tmux.conf">>), join(BackupDir(Today), <<"helix">>), b, t, h)

NoBackup == BackupLocation(FALSE, NoNode, NoNode, NoTree)

\* The repo's configs/ when install reads a backup instead.
RepoOther == RepoLocation(FileNode(MaxContent), FileNode(MaxContent), PartialTree(MaxContent))

Configs == <<"helix", "tmux", "bashrc">>

\* The configs a subcommand handles.
Handles(sub, config) == sub = "all" \/ sub = config

\* The states of the three configs at a command's source and destination:
\* a config the subcommand does not handle is absent at both.
SrcChoices(sub) ==
    {<<b, t, h>> : b \in (IF Handles(sub, "bashrc") THEN SrcFiles ELSE {NoNode}), t \in (IF Handles(sub, "tmux") THEN SrcFiles ELSE {NoNode}), h \in (IF Handles(sub, "helix") THEN SrcTrees ELSE {NoTree})}

DstChoices(sub) ==
    {<<b, t, h>> : b \in (IF Handles(sub, "bashrc") THEN DstFiles ELSE {NoNode}), t \in (IF Handles(sub, "tmux") THEN DstFiles ELSE {NoNode}), h \in (IF Handles(sub, "helix") THEN DstTrees ELSE {NoTree})}

Subs == {"all", "helix", "tmux", "bashrc"}

Command(name, sub, dryrun, force, from, verify, diff) ==
    [name |-> name, sub |-> sub, dryrun |-> dryrun, force |-> force, from |-> from, verify |-> verify, diff |-> diff]

InstallCommands == {Command("install", sub, d, f, from, v, sd) : sub \in Subs, d \in BOOLEAN, f \in BOOLEAN, from \in {"", Today}, v \in BOOLEAN, sd \in BOOLEAN}

SyncCommands == {Command("sync", sub, d, FALSE, "", FALSE, FALSE) : sub \in Subs, d \in BOOLEAN}

BackupCommands == {Command("backup", sub, FALSE, FALSE, "", FALSE, FALSE) : sub \in Subs}

InitFs(c) ==
    IF c.name = "sync"
    THEN {SysLocation(s[1], s[2], s[3]) @@ RepoLocation(d[1], d[2], d[3]) @@ NoBackup : s \in SrcChoices(c.sub), d \in DstChoices(c.sub)}
    ELSE IF c.name = "install" /\ c.from = ""
    THEN {SysLocation(d[1], d[2], d[3]) @@ RepoLocation(s[1], s[2], s[3]) @@ NoBackup : s \in SrcChoices(c.sub), d \in DstChoices(c.sub)}
    ELSE IF c.name = "install"
    THEN {SysLocation(d[1], d[2], d[3]) @@ RepoOther @@ BackupLocation(present, s[1], s[2], s[3]) : s \in SrcChoices(c.sub), d \in DstChoices(c.sub), present \in {TRUE}}
         \cup {SysLocation(d[1], d[2], d[3]) @@ RepoOther @@ NoBackup : d \in DstChoices(c.sub)}
    ELSE {SysLocation(s[1], s[2], s[3]) @@ RepoOther @@ BackupLocation(TRUE, d[1], d[2], d[3]) : s \in SrcChoices(c.sub), d \in DstChoices(c.sub)}
         \cup {SysLocation(s[1], s[2], s[3]) @@ RepoOther @@ NoBackup : s \in SrcChoices(c.sub)}

FirstPc(c) ==
    IF c.name = "backup" THEN "mkdir"
    ELSE IF c.sub = "all" THEN "helix" ELSE c.sub

\* The sequencing of the "all" commands with tmux left out of the list.
NextPc_tmuxLeftOut(c, config) ==
    IF c.sub # "all" THEN "display"
    ELSE IF config = "helix" THEN "bashrc"
    ELSE "display"

\* The position after the step for one config.
NextPc(c, config) ==
    IF c.sub # "all" THEN "display"
    ELSE IF config = "helix" THEN "tmux"
    ELSE IF config = "tmux" THEN "bashrc"
    ELSE "display"

\* Nothing was handed to displayDiff. The fields of shown: done, displayDiff
\* was called; diffs, the list it was given; mounted, the renderer is still
\* mounted.
NoDiff == [done |-> FALSE, diffs |-> <<>>, mounted |-> FALSE]

\* diff-renderer.tsx displayDiff: render() mounts the renderer at once, and
\* the unmount is left to a timer of 100 ms.
displayDiff(diffs) == [done |-> TRUE, diffs |-> diffs, mounted |-> TRUE]

InitRun(c) ==
    /\ cmd = c
    /\ fs \in InitFs(c)
    /\ fs0 = fs
    /\ pc = FirstPc(c)
    /\ results = <<>>
    /\ exitCode = 0
    /\ crashed = FALSE
    /\ shown = NoDiff
    /\ vresults = <<>>
    /\ tools = {}

Init == \E c \in InstallCommands \cup SyncCommands \cup BackupCommands : InitRun(c)

(***************************************************************************)
(* install: the action evaluates installAll / installX (the arguments of   *)
(* displayResults) first, one step per config, then runs displayResults.   *)
(***************************************************************************)
InstallHelix ==
    /\ cmd.name = "install" /\ pc = "helix"
    /\ \E order \in Orders :
        LET r == installHelix(fs, cmd.dryrun, cmd.force, cmd.from, order)
        IN  fs' = r.fs /\ results' = Append(results, r.result)
    /\ pc' = NextPc(cmd, "helix")
    /\ UNCHANGED <<cmd, exitCode, crashed, shown, vresults, tools, fs0>>

InstallTmux ==
    /\ cmd.name = "install" /\ pc = "tmux"
    /\ LET r == installTmux(fs, cmd.dryrun, cmd.force, cmd.from)
       IN  fs' = r.fs /\ results' = Append(results, r.result)
    /\ pc' = NextPc(cmd, "tmux")
    /\ UNCHANGED <<cmd, exitCode, crashed, shown, vresults, tools, fs0>>

InstallBashrc ==
    /\ cmd.name = "install" /\ pc = "bashrc"
    /\ LET r == installBashrc(fs, cmd.dryrun, cmd.force, cmd.from)
       IN  fs' = r.fs /\ results' = Append(results, r.result)
    /\ pc' = NextPc(cmd, "bashrc")
    /\ UNCHANGED <<cmd, exitCode, crashed, shown, vresults, tools, fs0>>

\* displayResults(results, dryrun, verify, showDiff) of install.  An
\* exception of showConfigDiffs is caught nowhere: the process dies with
\* exit code 1 before anything else is printed.
InstallDisplay ==
    /\ cmd.name = "install" /\ pc = "display"
    /\ \E order \in Orders :
        LET d == IF cmd.diff THEN showConfigDiffs(fs, order) ELSE [val |-> <<>>, err |-> FALSE]
        IN  IF d.err
            THEN /\ crashed' = TRUE
                 /\ exitCode' = 1
                 /\ UNCHANGED <<shown, vresults>>
            ELSE /\ shown' = (IF cmd.diff THEN displayDiff(d.val) ELSE NoDiff)
                 /\ vresults' = (IF cmd.verify THEN getVerifyResults(fs, [i \in 1..Len(results) |-> results[i].name]) ELSE <<>>)
                 /\ exitCode' = install_displayResults(results, cmd.dryrun)
                 /\ UNCHANGED crashed
    /\ pc' = "done"
    /\ UNCHANGED <<fs, cmd, results, tools, fs0>>

\* The callback of displayDiff's setTimeout: it runs once the synchronous
\* pass of the action has returned, and only in a process that is still
\* alive (process.exit(1) ends it with the timer pending).
DisplayDiffTimeout ==
    /\ cmd.name = "install" /\ pc = "done" /\ shown.mounted
    /\ exitCode = 0 /\ ~crashed
    /\ shown' = [shown EXCEPT !.mounted = FALSE]
    /\ UNCHANGED <<fs, cmd, pc, results, exitCode, crashed, vresults, tools, fs0>>

(***************************************************************************)
(* sync                                                                    *)
(***************************************************************************)
SyncHelix ==
    /\ cmd.name = "sync" /\ pc = "helix"
    /\ \E order \in Orders :
        LET r == syncHelix(fs, cmd.dryrun, order)
        IN  fs' = r.fs /\ results' = Append(results, r.result)
    /\ pc' = NextPc(cmd, "helix")
    /\ UNCHANGED <<cmd, exitCode, crashed, shown, vresults, tools, fs0>>

SyncTmux ==
    /\ cmd.name = "sync" /\ pc = "tmux"
    /\ LET r == syncTmux(fs, cmd.dryrun)
       IN  fs' = r.fs /\ results' = Append(results, r.result)
    /\ pc' = NextPc(cmd, "tmux")
    /\ UNCHANGED <<cmd, exitCode, crashed, shown, vresults, tools, fs0>>

SyncBashrc ==
    /\ cmd.name = "sync" /\ pc = "bashrc"
    /\ LET r == syncBashrc(fs, cmd.dryrun)
       IN  fs' = r.fs /\ results' = Append(results, r.result)
    /\ pc' = NextPc(cmd, "bashrc")
    /\ UNCHANGED <<cmd, exitCode, crashed, shown, vresults, tools, fs0>>

SyncDisplay ==
    /\ cmd.name = "sync" /\ pc = "display"
    /\ exitCode' = sync_displayResults(results, cmd.dryrun)
    /\ pc' = "done"
    /\ UNCHANGED <<fs, cmd, results, crashed, shown, vresults, tools, fs0>>

(***************************************************************************)
(* backup: mkdirSync of the dated directory (outside any try), one step    *)
(* per item of performBackup, then displayBackupResults.                   *)
(***************************************************************************)
BackupMkdir ==
    /\ cmd.name = "backup" /\ pc = "mkdir"
    /\ LET m == mkdirSync(fs, BackupDir(Today))
       IN  IF m.err
           THEN crashed' = TRUE /\ exitCode' = 1 /\ pc' = "done" /\ fs' = m.fs
           ELSE fs' = m.fs /\ pc' = (IF cmd.sub = "all" THEN "helix" ELSE cmd.sub) /\ UNCHANGED <<crashed, exitCode>>
    /\ UNCHANGED <<cmd, results, shown, vresults, tools, fs0>>

BackupItemFor(config) ==
    IF config = "helix" THEN getHelixBackupItem(BackupDir(Today))
    ELSE IF config = "tmux" THEN getTmuxBackupItem(BackupDir(Today))
    ELSE getBashrcBackupItem(BackupDir(Today))

PerformBackup ==
    /\ cmd.name = "backup" /\ pc \in {"helix", "tmux", "bashrc"}
    /\ \E order \in Orders :
        LET r == performBackupItem(fs, BackupItemFor(pc), order)
        IN  fs' = r.fs /\ results' = Append(results, r.result)
    /\ pc' = NextPc(cmd, pc)
    /\ UNCHANGED <<cmd, exitCode, crashed, shown, vresults, tools, fs0>>

BackupDisplay ==
    /\ cmd.name = "backup" /\ pc = "display"
    /\ pc' = "done"
    /\ UNCHANGED <<fs, cmd, results, exitCode, crashed, shown, vresults, tools, fs0>>

Next ==
    \/ InstallHelix
    \/ InstallTmux
    \/ InstallBashrc
    \/ InstallDisplay
    \/ DisplayDiffTimeout
    \/ SyncHelix
    \/ SyncTmux
    \/ SyncBashrc
    \/ SyncDisplay
    \/ BackupMkdir
    \/ PerformBackup
    \/ BackupDisplay

Spec == Init /\ [][Next]_vars

\* Every node is in shape, and a node that exists lies in a directory.
TypeOK ==
    /\ DOMAIN fs = AllPaths
    /\ \A p \in AllPaths : fs[p].kind \in {"none", "dir", "file"}
    /\ \A p \in AllPaths : fs[p].kind # "none" => Node(fs, dirname(p)).kind = "dir"
    /\ pc \in {"parse", "mkdir", "helix", "tmux", "bashrc", "verify", "display", "done"}
    /\ exitCode \in {0, 1}

(***************************************************************************)
(* The directory copy and the directory comparison on arbitrary trees:     *)
(* `sync helix`, `backup helix` and `install helix` over every well-formed *)
(* source tree and every well-formed destination tree of the tracked       *)
(* paths.                                                                  *)
(***************************************************************************)
FileNodes(cs) == {FileNode(c) : c \in cs}

WellFormedTree(t) ==
    /\ (t[<<"sub">>] # DirNode => t[<<"sub", "a">>] = NoNode /\ t[<<"sub", ".git">>] = NoNode)
    /\ (t[<<".git">>] # DirNode => t[<<".git", "a">>] = NoNode)

\* Every existing tree whose files have a content of cs.
GenTrees(cs) ==
    {t \in {Tree(DirNode, a, sub, suba, subgit, git, gita) : a \in {NoNode, DirNode} \cup FileNodes(cs), sub \in {NoNode, DirNode} \cup FileNodes(cs), suba \in {NoNode} \cup FileNodes(cs), subgit \in {NoNode, FileNode(1)}, git \in {NoNode, DirNode}, gita \in {NoNode, FileNode(1)}} : WellFormedTree(t)}

TreeCommands ==
    {Command("install", "helix", FALSE, f, "", FALSE, sd) : f \in BOOLEAN, sd \in BOOLEAN} \cup {Command("sync", "helix", FALSE, FALSE, "", FALSE, FALSE), Command("backup", "helix", FALSE, FALSE, "", FALSE, FALSE)}

InitTreeFs(c) ==
    IF c.name = "sync"
    THEN {SysLocation(NoNode, NoNode, A) @@ RepoLocation(NoNode, NoNode, B) @@ NoBackup : A \in GenTrees({1}), B \in GenTrees(Contents) \cup {NoTree}}
    ELSE IF c.name = "install"
    THEN {SysLocation(NoNode, NoNode, B) @@ RepoLocation(NoNode, NoNode, A) @@ NoBackup : A \in GenTrees({1}), B \in GenTrees(Contents) \cup {NoTree}}
    ELSE {SysLocation(NoNode, NoNode, A) @@ RepoLocation(NoNode, NoNode, NoTree) @@ BackupLocation(B # NoTree, NoNode, NoNode, B) : A \in GenTrees({1}), B \in GenTrees(Contents) \cup {NoTree}}

InitTree ==
    \E c \in TreeCommands :
        /\ cmd = c
        /\ fs \in InitTreeFs(c)
        /\ fs0 = fs
        /\ pc = FirstPc(c)
        /\ results = <<>>
        /\ exitCode = 0
        /\ crashed = FALSE
        /\ shown = NoDiff
        /\ vresults = <<>>
        /\ tools = {}

NextTree ==
    \/ InstallHelix
    \/ InstallDisplay
    \/ DisplayDiffTimeout
    \/ SyncHelix
    \/ SyncDisplay
    \/ BackupMkdir
    \/ PerformBackup
    \/ BackupDisplay

SpecTree == InitTree /\ [][NextTree]_vars

(***************************************************************************)
(* verify: the action computes the result list (verifyAll or one check),   *)
(* then displayResults derives the exit code.                              *)
(***************************************************************************)
ToolCommands == {"hx", "tmux", "fzf", "starship", "gh", "copilot", "htop"}

VerifySubs == {"all", "helix", "tmux", "nvm", "fzf", "zoxide", "starship", "bashrc", "gh", "copilot", "htop"}

\* The command a tool subcommand of verify resolves.
ToolOf(sub) == IF sub = "helix" THEN "hx" ELSE sub

verifyOne(f, t, sub) ==
    IF sub = "all" THEN verifyAll(f, t)
    ELSE IF sub = "helix" THEN <<verifyHelix(t)>>
    ELSE IF sub = "tmux" THEN <<verifyTmux(t)>>
    ELSE IF sub = "nvm" THEN <<verifyNvm(f)>>
    ELSE IF sub = "fzf" THEN <<verifyFzf(t)>>
    ELSE IF sub = "zoxide" THEN <<verifyZoxide(f)>>
    ELSE IF sub = "starship" THEN <<verifyStarship(t)>>
    ELSE IF sub = "bashrc" THEN <<verifyBashrc(f)>>
    ELSE IF sub = "gh" THEN <<verifyGh(t)>>
    ELSE IF sub = "copilot" THEN <<verifyGitHubCopilotCli(t)>>
    ELSE <<verifyHtop(t)>>

\* The filesystem verify runs on: ~/.bashrc and configs/bashrc, tmux.conf on
\* both sides, the helix directory of the system, and the markers.
VerifyFs(b, rb, t, rt, h, nvm, zoxide) ==
    Location(SysBashrc, SysTmux, SysHelix, b, t, h) @@ (NvmPath :> nvm) @@ (ZoxidePath :> zoxide) @@ RepoLocation(rb, rt, NoTree) @@ NoBackup

InitVerify ==
    \E sub \in VerifySubs :
        /\ cmd = Command("verify", sub, FALSE, FALSE, "", FALSE, FALSE)
        /\ tools \in (IF sub = "all" THEN SUBSET ToolCommands ELSE SUBSET (ToolCommands \cap {ToolOf(sub)}))
        /\ \E b \in (IF sub \in {"all", "bashrc"} THEN DstFiles ELSE {NoNode}), rb \in (IF sub \in {"all", "bashrc"} THEN {NoNode, DirNode, FileNode(1)} ELSE {NoNode}), nvm \in (IF sub \in {"all", "nvm"} THEN {NoNode, DirNode} ELSE {NoNode}), zoxide \in (IF sub \in {"all", "zoxide"} THEN {NoNode, FileNode(1)} ELSE {NoNode}) :
            \E t \in (IF sub \in {"all", "tmux"} THEN {NoNode, FileNode(1)} ELSE {NoNode}), rt \in (IF sub \in {"all", "tmux"} THEN {NoNode, FileNode(MaxContent)} ELSE {NoNode}), h \in (IF sub \in {"all", "helix"} THEN {NoTree, FlatTree} ELSE {NoTree}) :
                fs = VerifyFs(b, rb, t, rt, h, nvm, zoxide)
        /\ fs0 = fs
        /\ pc = "verify"
        /\ results = <<>>
        /\ exitCode = 0
        /\ crashed = FALSE
        /\ shown = NoDiff
        /\ vresults = <<>>

VerifyRun ==
    /\ cmd.name = "verify" /\ pc = "verify"
    /\ vresults' = verifyOne(fs, tools, cmd.sub)
    /\ pc' = "display"
    /\ UNCHANGED <<fs, cmd, results, exitCode, crashed, shown, tools, fs0>>

VerifyDisplay ==
    /\ cmd.name = "verify" /\ pc = "display"
    /\ exitCode' = verify_displayResults(vresults)
    /\ pc' = "done"
    /\ UNCHANGED <<fs, cmd, results, crashed, shown, vresults, tools, fs0>>

NextVerify ==
    \/ VerifyRun
    \/ VerifyDisplay

SpecVerify == InitVerify /\ [][NextVerify]_vars

(***************************************************************************)
(* `dotfiles sync` with no subcommand (backup.ts: syncCommand.action).     *)
(* The sync command itself declares no option: only its subcommands        *)
(* declare -d, --dryrun.  Its action takes no argument and runs            *)
(* syncAll(false) and displayResults(..., false).  In cmd, sub = "" says   *)
(* that no subcommand was named, and dryrun that --dryrun stood on the     *)
(* command line.                                                           *)
(***************************************************************************)
SyncDefaultCommands == {Command("sync", "", d, FALSE, "", FALSE, FALSE) : d \in BOOLEAN}

\* The options declared on the sync command itself.
syncCommand_options == {}

InitSyncDefault ==
    \E c \in SyncDefaultCommands :
        /\ cmd = c
        /\ fs \in InitFs(Command("sync", "all", FALSE, FALSE, "", FALSE, FALSE))
        /\ fs0 = fs
        /\ pc = "parse"
        /\ results = <<>>
        /\ exitCode = 0
        /\ crashed = FALSE
        /\ shown = NoDiff
        /\ vresults = <<>>
        /\ tools = {}

\* The command-line parser meets --dryrun on a command that does not declare
\* it: it reports an unknown option and ends the process with code 1 before
\* the action is called.
SyncDefaultParse ==
    /\ cmd.name = "sync" /\ cmd.sub = "" /\ pc = "parse"
    /\ IF cmd.dryrun /\ "dryrun" \notin syncCommand_options
       THEN exitCode' = 1 /\ pc' = "done"
       ELSE pc' = "helix" /\ UNCHANGED exitCode
    /\ UNCHANGED <<fs, cmd, results, crashed, shown, vresults, tools, fs0>>

\* syncAll(false): the three syncs, in order.
SyncDefaultHelix ==
    /\ cmd.name = "sync" /\ cmd.sub = "" /\ pc = "helix"
    /\ \E order \in Orders :
        LET r == syncHelix(fs, FALSE, order)
        IN  fs' = r.fs /\ results' = Append(results, r.result)
    /\ pc' = "tmux"
    /\ UNCHANGED <<cmd, exitCode, crashed, shown, vresults, tools, fs0>>

SyncDefaultTmux ==
    /\ cmd.name = "sync" /\ cmd.sub = "" /\ pc = "tmux"
    /\ LET r == syncTmux(fs, FALSE)
       IN  fs' = r.fs /\ results' = Append(results, r.result)
    /\ pc' = "bashrc"
    /\ UNCHANGED <<cmd, exitCode, crashed, shown, vresults, tools, fs0>>

SyncDefaultBashrc ==
    /\ cmd.name = "sync" /\ cmd.sub = "" /\ pc = "bashrc"
    /\ LET r == syncBashrc(fs, FALSE)
       IN  fs' = r.fs /\ results' = Append(results, r.result)
    /\ pc' = "display"
    /\ UNCHANGED <<cmd, exitCode, crashed, shown, vresults, tools, fs0>>

SyncDefaultDisplay ==
    /\ cmd.name = "sync" /\ cmd.sub = "" /\ pc = "display"
    /\ exitCode' = sync_displayResults(results, FALSE)
    /\ pc' = "done"
    /\ UNCHANGED <<fs, cmd, results, crashed, shown, vresults, tools, fs0>>

NextSyncDefault ==
    \/ SyncDefaultParse
    \/ SyncDefaultHelix
    \/ SyncDefaultTmux
    \/ SyncDefaultBashrc
    \/ SyncDefaultDisplay

SpecSyncDefault == InitSyncDefault /\ [][NextSyncDefault]_vars

(***************************************************************************)
(* Vocabulary of the properties.                                           *)
(***************************************************************************)
HasGit(p) == \E i \in 1..Len(p) : p[i] = ".git"

\* The relative paths of the regular files of a tree, .git left out.
TreeFiles(f, root) == {r \in RelPaths : ~HasGit(r) /\ Node(f, join(root, r)).kind = "file"}

BackupHelix == join(BackupDir(Today), <<"helix">>)

\* The helix directory a command copies from, and the one it copies to.
HelixSource(c) == IF c.name = "install" THEN join(sourceBase(c.from), <<"helix">>) ELSE SysHelix

HelixDest(c) == IF c.name = "install" THEN SysHelix ELSE IF c.name = "sync" THEN RepoHelix ELSE BackupHelix

\* Where install reads a config from, where it writes it, and the paths
\* at and below that destination.
InstallSource(c, config) ==
    IF config = "helix" THEN join(sourceBase(c.from), <<"helix">>)
    ELSE IF config = "tmux" THEN join(sourceBase(c.from), <<"tmux", "tmux.conf">>)
    ELSE join(sourceBase(c.from), <<"bashrc">>)

InstallDest(config) == IF config = "helix" THEN SysHelix ELSE IF config = "tmux" THEN SysTmux ELSE SysBashrc

DestPaths(config) == IF config = "helix" THEN TreePaths(SysHelix) ELSE IF config = "tmux" THEN {dirname(SysTmux), SysTmux} ELSE {SysBashrc}

\* The command overwrites what it finds at the destination.
Overwrites(c) == c.name \in {"sync", "backup"} \/ (c.name = "install" /\ c.force)

\* compareDirectories reports no entry that has differences, whatever the
\* listing order.
NoDifferences(f, A, B) ==
    \A order \in Orders :
        LET d == compareDirectories(f, A, B, order)
        IN  ~d.err /\ \A i \in 1..Len(d.val) : ~hasDifferences(d.val[i])

\* Two existing directories with the same files (outside .git), each with
\* the same content on both sides.
SameFiles(f, A, B) ==
    /\ isDirectory(f, A) /\ isDirectory(f, B)
    /\ TreeFiles(f, A) = TreeFiles(f, B)
    /\ \A r \in TreeFiles(f, A) : Node(f, join(A, r)) = Node(f, join(B, r))

(***************************************************************************)
(* C1.  For an install with --diff and without dry run, the differences    *)
(* displayed are those of the system files as they were before any copy    *)
(* of the invocation: the displayed list is showConfigDiffs of the initial *)
(* filesystem.  (The code evaluates installAll(...) as an argument of      *)
(* displayResults, so the copies come first.)                              *)
(***************************************************************************)
C1_DiffShowsStateBeforeCopies ==
    (pc = "done" /\ cmd.name = "install" /\ cmd.diff /\ ~cmd.dryrun /\ shown.done)
        => \E order \in Orders :
               LET d == showConfigDiffs(fs0, order)
               IN  ~d.err /\ shown.diffs = d.val

(***************************************************************************)
(* C2.  A non-dry-run sync or install exits with code 1 if and only if     *)
(* some entry's copy raised a filesystem error; a missing source alone     *)
(* does not cause exit code 1.                                             *)
(***************************************************************************)
C2_ExitOneIffCopyError ==
    (pc = "done" /\ cmd.name \in {"sync", "install"} /\ ~cmd.dryrun /\ ~crashed)
        => (exitCode = 1 <=> \E i \in 1..Len(results) : results[i].message = "error")

(***************************************************************************)
(* C3.  As claimed: after a directory copy with overwrite that completed,  *)
(* compareDirectories(source, destination) has no entry with differences,  *)
(* whatever the destination held before.                                   *)
(***************************************************************************)
C3_CopyThenCompareAnyDest ==
    (pc = "done" /\ Overwrites(cmd) /\ Len(results) = 1 /\ results[1].success)
        => NoDifferences(fs, HelixSource(cmd), HelixDest(cmd))

(***************************************************************************)
(* C3, amended.  After a directory copy with overwrite that completed,     *)
(* into a destination that held no file (outside .git) at a path where the *)
(* source has none, compareDirectories(source, destination) has no entry   *)
(* with differences.                                                       *)
(***************************************************************************)
C3_CopyThenCompare ==
    (pc = "done" /\ Overwrites(cmd) /\ Len(results) = 1 /\ results[1].success
        /\ TreeFiles(fs0, HelixDest(cmd)) \subseteq TreeFiles(fs0, HelixSource(cmd)))
        => NoDifferences(fs, HelixSource(cmd), HelixDest(cmd))

\* A completed overwriting copy that replaced a different file and created
\* a missing one.
C3_Witness ==
    /\ pc = "done" /\ Overwrites(cmd) /\ Len(results) = 1 /\ results[1].success
    /\ TreeFiles(fs0, HelixDest(cmd)) \subseteq TreeFiles(fs0, HelixSource(cmd))
    /\ \E r \in TreeFiles(fs0, HelixDest(cmd)) : fs0[join(HelixDest(cmd), r)] # fs0[join(HelixSource(cmd), r)]
    /\ \E r \in TreeFiles(fs0, HelixSource(cmd)) : ~existsSync(fs0, join(HelixDest(cmd), r))

C5_DryRunChangesNothing ==
    (cmd.name \in {"sync", "install"} /\ cmd.dryrun) => fs = fs0

\* A finished dry run that announced a copy it would have made onto a
\* destination that differs from the source.
C5_Witness ==
    /\ pc = "done" /\ cmd.name \in {"sync", "install"} /\ cmd.dryrun /\ cmd.sub = "all"
    /\ \A i \in 1..Len(results) : results[i].message \in {"Would install", "Would sync"}
    /\ fs0[SysBashrc] # fs0[RepoBashrc]

(***************************************************************************)
(* C6.  verify exits with code 1 if and only if some result has            *)
(* installed = false and is not optional; missing optional tools and a     *)
(* bashrc content mismatch (a warning) leave the exit code 0.              *)
(***************************************************************************)
C6_VerifyExitCode ==
    (pc = "done" /\ cmd.name = "verify")
        => /\ exitCode = 1 <=> \E i \in 1..Len(vresults) : ~vresults[i].installed /\ ~vresults[i].optional
           /\ exitCode \in {0, 1}

\* `verify` in which optional tools are missing and bashrc differs from
\* the repo, and nothing else is wrong: exit code 0.
C6_Witness ==
    /\ pc = "done" /\ cmd.name = "verify" /\ cmd.sub = "all" /\ exitCode = 0
    /\ \E i \in 1..Len(vresults) : vresults[i].optional /\ ~vresults[i].installed
    /\ \E i \in 1..Len(vresults) : vresults[i].name = "bashrc" /\ vresults[i].warning /\ vresults[i].message = "differs from configs/bashrc"

(***************************************************************************)
(* C7.  No command changes a path named .git, at any depth: a .git path    *)
(* absent from the destination stays absent and an existing one keeps its  *)
(* content, even when the source holds a .git of its own.                  *)
(***************************************************************************)
C7_GitNeverCopied ==
    \A p \in AllPaths : HasGit(p) => fs[p] = fs0[p]

\* A completed helix copy whose source holds .git (a directory at the top,
\* a file below sub) and whose destination holds a different .git.
C7_Witness ==
    /\ pc = "done" /\ ~cmd.dryrun /\ Handles(cmd.sub, "helix")
    /\ \E i \in 1..Len(results) : results[i].name = "helix" /\ results[i].success /\ results[i].message = ""
    /\ Node(fs0, join(HelixSource(cmd), <<".git", "a">>)).kind = "file"
    /\ Node(fs0, join(HelixSource(cmd), <<"sub", ".git">>)).kind = "file"
    /\ Node(fs0, join(HelixDest(cmd), <<".git", "a">>)).kind = "file"
    /\ fs0[join(HelixDest(cmd), <<".git", "a">>)] # fs0[join(HelixSource(cmd), <<".git", "a">>)]
    /\ fs[join(HelixDest(cmd), <<"sub", "a">>)] = fs0[join(HelixSource(cmd), <<"sub", "a">>)]

(***************************************************************************)
(* C8.  In `backup all`, `sync all` and `install all` every config is      *)
(* attempted whatever the outcome of the others: the result list holds one *)
(* result per config in the order helix, tmux, bashrc, and a single-file   *)
(* config that can be copied is copied even after an earlier config        *)
(* failed.                                                                 *)
(***************************************************************************)
FileSource(c, config) ==
    IF c.name = "install" THEN InstallSource(c, config)
    ELSE IF config = "tmux" THEN SysTmux ELSE SysBashrc

FileDest(c, config) ==
    IF c.name = "install" THEN InstallDest(config)
    ELSE IF c.name = "sync" THEN (IF config = "tmux" THEN RepoTmux ELSE RepoBashrc)
    ELSE (IF config = "tmux" THEN join(BackupDir(Today), <<"tmux", "tmux.conf">>) ELSE join(BackupDir(Today), <<"bashrc">>))

\* The copy of a single-file config can be made: the source is a file and
\* the destination is absent, or a file the command overwrites.
Copyable(c, config) ==
    /\ Node(fs0, FileSource(c, config)).kind = "file"
    /\ \/ ~existsSync(fs0, FileDest(c, config))
       \/ Node(fs0, FileDest(c, config)).kind = "file" /\ Overwrites(c)

C8_EveryConfigAttempted ==
    (pc \in {"display", "done"} /\ cmd.sub = "all" /\ cmd.name \in {"backup", "sync", "install"})
        => /\ [i \in 1..Len(results) |-> results[i].name] = Configs
           /\ \A config \in {"tmux", "bashrc"} :
                  (~cmd.dryrun /\ Copyable(cmd, config)) => fs[FileDest(cmd, config)] = fs0[FileSource(cmd, config)]

\* helix raised a filesystem error, tmux's source was missing, and bashrc
\* was still copied over a different file.
C8_Witness ==
    /\ pc = "done" /\ cmd.sub = "all" /\ ~cmd.dryrun /\ Len(results) = 3
    /\ results[1].message = "error"
    /\ ~results[2].success
    /\ results[3].success
    /\ Copyable(cmd, "bashrc")
    /\ fs0[FileDest(cmd, "bashrc")] # fs0[FileSource(cmd, "bashrc")]
    /\ existsSync(fs0, FileDest(cmd, "bashrc"))

(***************************************************************************)
(* C9.  As claimed: for two existing directories that hold the same files  *)
(* with equal contents (at least one file), compareDirectories returns an  *)
(* empty list.                                                             *)
(***************************************************************************)
C9_IdenticalGivesEmptyList ==
    (pc = "done" /\ cmd.name = "install" /\ shown.done /\ SameFiles(fs, RepoHelix, SysHelix) /\ TreeFiles(fs, RepoHelix) # {})
        => shown.diffs = <<>>

(***************************************************************************)
(* C9, amended.  For two existing directories that hold the same files     *)
(* with equal contents (at least one file), compareDirectories returns one *)
(* entry per file, none of which has differences: neither flag is set and  *)
(* no change is an addition or a removal.                                  *)
(***************************************************************************)
C9_IdenticalGivesNoDifferences ==
    (pc = "done" /\ cmd.name = "install" /\ shown.done /\ SameFiles(fs, RepoHelix, SysHelix) /\ TreeFiles(fs, RepoHelix) # {})
        => /\ {shown.diffs[i].repoPath : i \in 1..Len(shown.diffs)} = {join(RepoHelix, r) : r \in TreeFiles(fs, RepoHelix)}
           /\ Len(shown.diffs) = Cardinality(TreeFiles(fs, RepoHelix))
           /\ \A i \in 1..Len(shown.diffs) : ~hasDifferences(shown.diffs[i]) /\ ~shown.diffs[i].onlyInRepo /\ ~shown.diffs[i].onlyInSystem

\* The diff of `install helix --diff` over two directories that hold the
\* same two files.
C9_Witness ==
    /\ pc = "done" /\ cmd.name = "install" /\ shown.done
    /\ SameFiles(fs, RepoHelix, SysHelix)
    /\ Cardinality(TreeFiles(fs, RepoHelix)) >= 2
    /\ Len(shown.diffs) >= 2

(***************************************************************************)
(* C10.  As claimed: when helix is installed without force onto an         *)
(* existing destination directory, every source file (outside .git) that   *)
(* the destination lacks is copied there and every file the destination    *)
(* holds is left unchanged.                                                *)
(***************************************************************************)
C10_MissingFilesCopiedWithoutForce ==
    (pc = "done" /\ cmd.name = "install" /\ ~cmd.force /\ ~cmd.dryrun /\ Handles(cmd.sub, "helix")
        /\ isDirectory(fs0, HelixSource(cmd)) /\ isDirectory(fs0, SysHelix))
        => /\ \A r \in TreeFiles(fs0, HelixSource(cmd)) :
                  ~existsSync(fs0, join(SysHelix, r)) => fs[join(SysHelix, r)] = fs0[join(HelixSource(cmd), r)]
           /\ \A r \in TreeFiles(fs0, SysHelix) : fs[join(SysHelix, r)] = fs0[join(SysHelix, r)]

(***************************************************************************)
(* C10, amended.  When helix is installed without force onto an existing   *)
(* destination directory, the install is skipped as a whole: no source     *)
(* file that the destination lacks is copied there, and every path of the  *)
(* destination is left unchanged.                                          *)
(***************************************************************************)
C10_NothingCopiedWithoutForce ==
    (pc = "done" /\ cmd.name = "install" /\ ~cmd.force /\ ~cmd.dryrun /\ Handles(cmd.sub, "helix")
        /\ isDirectory(fs0, HelixSource(cmd)) /\ isDirectory(fs0, SysHelix))
        => /\ \A r \in TreeFiles(fs0, HelixSource(cmd)) :
                  ~existsSync(fs0, join(SysHelix, r)) => ~existsSync(fs, join(SysHelix, r))
           /\ \A p \in TreePaths(SysHelix) : fs[p] = fs0[p]

\* `install helix` without force: the destination directory exists and
\* lacks a file of the source.
C10_Witness ==
    /\ pc = "done" /\ cmd.name = "install" /\ ~cmd.force /\ ~cmd.dryrun /\ Handles(cmd.sub, "helix")
    /\ isDirectory(fs0, HelixSource(cmd)) /\ isDirectory(fs0, SysHelix)
    /\ \E r \in TreeFiles(fs0, HelixSource(cmd)) : ~existsSync(fs0, join(SysHelix, r))
    /\ \E i \in 1..Len(results) : results[i].name = "helix" /\ results[i].skipped

(***************************************************************************)
(* C11.  As claimed: when the recursive copy of the helix directory raises *)
(* on one entry, every other source file that can be copied is in the      *)
(* destination afterwards.                                                 *)
(***************************************************************************)
\* The helix step of the command ended with a filesystem error.
HelixCopyRaised ==
    /\ pc = "done" /\ ~cmd.dryrun
    /\ \E i \in 1..Len(results) : results[i].name = "helix" /\ results[i].message = "error"

\* The source file at r can be copied on its own: nothing on the way to
\* its destination is a regular file, and the destination is no directory.
CopyableFile(c, r) ==
    /\ r \in TreeFiles(fs0, HelixSource(c))
    /\ \A q \in Prefixes(r) : q # r => Node(fs0, join(HelixDest(c), q)).kind # "file"
    /\ Node(fs0, HelixDest(c)).kind # "file"
    /\ Node(fs0, join(HelixDest(c), r)).kind # "dir"

SecondBackupDone ==
    /\ pc = "done" /\ cmd.name = "backup" /\ ~crashed
    /\ isDirectory(fs0, BackupDir(Today))
    /\ \A i \in 1..Len(results) : results[i].message # "error"

C12_BackupIsExactSnapshot ==
    SecondBackupDone
        => /\ \A config \in {"tmux", "bashrc"} :
                  Handles(cmd.sub, config) => fs[FileDest(cmd, config)] = fs0[FileSource(cmd, config)]
           /\ Handles(cmd.sub, "helix")
                  => /\ TreeFiles(fs, BackupHelix) = TreeFiles(fs0, SysHelix)
                     /\ \A r \in TreeFiles(fs0, SysHelix) : fs[join(BackupHelix, r)] = fs0[join(SysHelix, r)]

(***************************************************************************)
(* C12, amended.  After such a backup the dated directory is overwritten   *)
(* file by file: every system file that exists (outside .git) is in the    *)
(* dated directory with the system's content, and everything the earlier   *)
(* run left at a path where the system holds no file now is still there,   *)
(* the whole copy of a config whose system source no longer exists         *)
(* included.                                                               *)
(***************************************************************************)
C12_BackupOverwritesFileByFile ==
    SecondBackupDone
        => /\ \A config \in {"tmux", "bashrc"} :
                  Handles(cmd.sub, config)
                      => IF existsSync(fs0, FileSource(cmd, config))
                         THEN fs[FileDest(cmd, config)] = fs0[FileSource(cmd, config)]
                         ELSE fs[FileDest(cmd, config)] = fs0[FileDest(cmd, config)]
           /\ Handles(cmd.sub, "helix")
                  => /\ \A r \in TreeFiles(fs0, SysHelix) : fs[join(BackupHelix, r)] = fs0[join(SysHelix, r)]
                     /\ \A r \in RelPaths :
                            (Node(fs0, join(BackupHelix, r)).kind = "file" /\ r \notin TreeFiles(fs0, SysHelix))
                                => fs[join(BackupHelix, r)] = fs0[join(BackupHelix, r)]

\* `backup all` into an existing dated directory: the system has no
\* bashrc any more and the earlier run's copy of it is still there, while
\* the earlier copy of tmux.conf was overwritten with a different content.
C12_Witness ==
    /\ SecondBackupDone /\ cmd.sub = "all"
    /\ ~existsSync(fs0, SysBashrc)
    /\ Node(fs0, FileDest(cmd, "bashrc")).kind = "file"
    /\ fs[FileDest(cmd, "bashrc")] = fs0[FileDest(cmd, "bashrc")]
    /\ Node(fs0, SysTmux).kind = "file" /\ Node(fs0, FileDest(cmd, "tmux")).kind = "file"
    /\ fs0[FileDest(cmd, "tmux")] # fs0[SysTmux]
    /\ fs[FileDest(cmd, "tmux")] = fs0[SysTmux]

(***************************************************************************)
(* C13.  compareFiles returns null if and only if neither path exists;     *)
(* when exactly one path exists it returns one FileDiff with no changes    *)
(* whose flag onlyInRepo / onlyInSystem names the side that exists; no     *)
(* FileDiff returned has both flags set.  Checked on the two compareFiles  *)
(* calls of showConfigDiffs (bashrc and tmux.conf) and on every entry of   *)
(* the displayed list.                                                     *)
(***************************************************************************)
\* The two pairs <<repoPath, installedPath>> showConfigDiffs hands to
\* compareFiles.
ComparedPairs == {<<RepoBashrc, SysBashrc>>, <<RepoTmux, SysTmux>>}

\* The entries of the displayed list that compareFiles returned for a pair.
ShownFor(pair) == {i \in 1..Len(shown.diffs) : shown.diffs[i].repoPath = pair[1] /\ shown.diffs[i].installedPath = pair[2]}

C13_CompareFilesFlags ==
    (pc = "done" /\ cmd.name = "install" /\ shown.done)
        => /\ \A pair \in ComparedPairs :
                  LET inRepo == existsSync(fs, pair[1])
                      inSystem == existsSync(fs, pair[2])
                  IN  /\ ShownFor(pair) = {} <=> (~inRepo /\ ~inSystem)
                      /\ Cardinality(ShownFor(pair)) <= 1
                      /\ (inRepo # inSystem)
                             => \A i \in ShownFor(pair) :
                                    /\ shown.diffs[i].changes = <<>>
                                    /\ shown.diffs[i].onlyInRepo = inRepo
                                    /\ shown.diffs[i].onlyInSystem = inSystem
           /\ \A i \in 1..Len(shown.diffs) : ~(shown.diffs[i].onlyInRepo /\ shown.diffs[i].onlyInSystem)

\* One display in which bashrc exists only in the repo, tmux.conf exists
\* only on the system, and both are reported so.
C13_Witness ==
    /\ pc = "done" /\ cmd.name = "install" /\ shown.done
    /\ existsSync(fs, RepoBashrc) /\ ~existsSync(fs, SysBashrc)
    /\ ~existsSync(fs, RepoTmux) /\ existsSync(fs, SysTmux)
    /\ \E i \in ShownFor(<<RepoBashrc, SysBashrc>>) : shown.diffs[i].onlyInRepo /\ ~shown.diffs[i].onlyInSystem
    /\ \E i \in ShownFor(<<RepoTmux, SysTmux>>) : shown.diffs[i].onlyInSystem /\ ~shown.diffs[i].onlyInRepo

(***************************************************************************)
(* C14.  When both directories exist and compareDirectories returns, the   *)
(* list holds exactly one FileDiff per relative path in the union of the   *)
(* two trees' files (.git left out), none twice and none missing; a path   *)
(* that only the source holds is flagged onlyInRepo, one that only the     *)
(* target holds onlyInSystem.                                              *)
(***************************************************************************)
\* The entries of the displayed list that compareDirectories returned.
ShownHelix == {i \in 1..Len(shown.diffs) : IsPrefix(RepoHelix, shown.diffs[i].repoPath)}

C14_OneEntryPerUnionPath ==
    (pc = "done" /\ cmd.name = "install" /\ shown.done /\ isDirectory(fs, RepoHelix) /\ isDirectory(fs, SysHelix))
        => LET inRepo == TreeFiles(fs, RepoHelix)
               inSystem == TreeFiles(fs, SysHelix)
           IN  /\ {StripDir(shown.diffs[i].repoPath, RepoHelix) : i \in ShownHelix} = inRepo \cup inSystem
               /\ Cardinality(ShownHelix) = Cardinality(inRepo \cup inSystem)
               /\ \A i \in ShownHelix :
                      LET r == StripDir(shown.diffs[i].repoPath, RepoHelix)
                      IN  /\ shown.diffs[i].installedPath = join(SysHelix, r)
                          /\ (r \in inRepo \ inSystem => shown.diffs[i].onlyInRepo /\ ~shown.diffs[i].onlyInSystem)
                          /\ (r \in inSystem \ inRepo => shown.diffs[i].onlyInSystem /\ ~shown.diffs[i].onlyInRepo)
                          /\ (r \in inRepo \cap inSystem => ~shown.diffs[i].onlyInRepo /\ ~shown.diffs[i].onlyInSystem)

\* The source holds a and sub/a, the target is an empty directory: two
\* entries, both onlyInRepo.
C14_Witness ==
    /\ pc = "done" /\ cmd.name = "install" /\ shown.done
    /\ TreeFiles(fs, RepoHelix) = {<<"a">>, <<"sub", "a">>}
    /\ isDirectory(fs, SysHelix) /\ \A r \in RelPaths : r # <<>> => ~existsSync(fs, join(SysHelix, r))
    /\ Cardinality(ShownHelix) = 2
    /\ \A i \in ShownHelix : shown.diffs[i].onlyInRepo

(***************************************************************************)
(* C15.  As claimed: `verify` (all) holds, besides the tool checks, a      *)
(* content check of bashrc and of tmux.conf against the repo (a warning    *)
(* when the two files differ) and the existence check of the helix config  *)
(* directory.                                                              *)
(***************************************************************************)
\* The two files exist and differ.
Differ(f, p, q) == Node(f, p).kind = "file" /\ Node(f, q).kind = "file" /\ f[p] # f[q]

C15_VerifyChecksEveryConfig ==
    (pc = "done" /\ cmd.name = "verify" /\ cmd.sub = "all")
        => /\ Differ(fs, SysBashrc, RepoBashrc) => \E i \in 1..Len(vresults) : vresults[i].name = "bashrc" /\ vresults[i].warning
           /\ Differ(fs, SysTmux, RepoTmux) => \E i \in 1..Len(vresults) : vresults[i].name = "tmux" /\ vresults[i].warning
           /\ \E i \in 1..Len(vresults) : vresults[i] = verifyHelixConfig(fs)

(***************************************************************************)
(* C15, amended.  `verify` (all) holds ten results: the nine tool checks   *)
(* (hx, tmux, nvm, fzf, zoxide, starship, gh, copilot, htop), none of      *)
(* which looks at a config, and the bashrc check, which compares ~/.bashrc *)
(* with configs/bashrc.  tmux.conf and the helix config directory are not  *)
(* checked: the helix and tmux results say only whether the command hx or  *)
(* tmux is on the search path.                                             *)
(***************************************************************************)
C15_VerifyChecksToolsAndBashrc ==
    (pc = "done" /\ cmd.name = "verify" /\ cmd.sub = "all")
        => /\ [i \in 1..Len(vresults) |-> vresults[i].name]
                  = <<"Helix IDE (hx)", "tmux", "nvm", "fzf", "zoxide", "starship", "bashrc", "gh (GitHub CLI)", "copilot (GitHub Copilot CLI)", "htop">>
           /\ vresults[1].installed = ("hx" \in tools) /\ ~vresults[1].warning
           /\ vresults[2].installed = ("tmux" \in tools) /\ ~vresults[2].warning
           /\ vresults[7].installed = existsSync(fs, SysBashrc)
           /\ Differ(fs, SysBashrc, RepoBashrc) => vresults[7].warning
           /\ (Node(fs, SysBashrc).kind = "file" /\ fs[SysBashrc] = fs[RepoBashrc]) => ~vresults[7].warning
           /\ \A i \in 1..Len(vresults) : i # 7 => ~vresults[i].warning

\* `verify` with hx and tmux on the search path, no helix config
\* directory, a tmux.conf that differs from the repo's and a bashrc that
\* differs from the repo's: only bashrc carries a warning.
C15_Witness ==
    /\ pc = "done" /\ cmd.name = "verify" /\ cmd.sub = "all"
    /\ {"hx", "tmux"} \subseteq tools
    /\ ~existsSync(fs, SysHelix)
    /\ Differ(fs, SysTmux, RepoTmux)
    /\ Differ(fs, SysBashrc, RepoBashrc)
    /\ vresults[1].installed /\ vresults[2].installed /\ ~vresults[2].warning /\ vresults[7].warning

(***************************************************************************)
(* C16.  As claimed: every tool result (hx, tmux, nvm, fzf, zoxide,        *)
(* starship, gh, copilot, htop) of verify has installed = true and no      *)
(* message when the tool is present, and installed = false with a message  *)
(* and an install URL when it is absent.                                   *)
(***************************************************************************)
\* The tool a result name stands for is present: its command is on the
\* search path, or its marker path exists (nvm, zoxide).
ToolPresent(name) ==
    IF name = "nvm" THEN existsSync(fs, NvmPath)
    ELSE IF name = "zoxide" THEN existsSync(fs, ZoxidePath)
    ELSE IF name = "Helix IDE (hx)" THEN "hx" \in tools
    ELSE IF name = "gh (GitHub CLI)" THEN "gh" \in tools
    ELSE IF name = "copilot (GitHub Copilot CLI)" THEN "copilot" \in tools
    ELSE name \in tools

\* The results of a finished verify that are tool checks.
ToolResults == {i \in 1..Len(vresults) : vresults[i].name # "bashrc"}

C16_AbsentToolHasMessageAndUrl ==
    (pc = "done" /\ cmd.name = "verify")
        => \A i \in ToolResults :
               /\ vresults[i].installed = ToolPresent(vresults[i].name)
               /\ vresults[i].installed => vresults[i].message = ""
               /\ ~vresults[i].installed => vresults[i].message # "" /\ vresults[i].installUrl # ""

(***************************************************************************)
(* C16, amended.  Every tool result has installed = true and no message    *)
(* when the tool is present, and installed = false with an install URL     *)
(* when it is absent; an absent tool carries a message only for nvm,       *)
(* zoxide, gh, copilot and htop, and none for hx, tmux, fzf and starship.  *)
(* The install URL is static: a present tool carries it too.               *)
(***************************************************************************)
C16_AbsentToolHasUrl ==
    (pc = "done" /\ cmd.name = "verify")
        => \A i \in ToolResults :
               /\ vresults[i].installed = ToolPresent(vresults[i].name)
               /\ vresults[i].installed => vresults[i].message = ""
               /\ vresults[i].installUrl # ""
               /\ ~vresults[i].installed
                      => /\ vresults[i].installUrl # ""
                         /\ vresults[i].message # "" <=> vresults[i].name \in {"nvm", "zoxide", "gh (GitHub CLI)", "copilot (GitHub Copilot CLI)", "htop"}

\* `verify` with hx and nvm absent and fzf present.
C16_Witness ==
    /\ pc = "done" /\ cmd.name = "verify" /\ cmd.sub = "all"
    /\ "hx" \notin tools /\ "fzf" \in tools /\ ~existsSync(fs, NvmPath)
    /\ ~vresults[1].installed /\ vresults[1].message = "" /\ vresults[1].installUrl # ""
    /\ ~vresults[3].installed /\ vresults[3].message # "" /\ vresults[3].installUrl # ""
    /\ vresults[4].installed /\ vresults[4].message = ""

(***************************************************************************)
(* C17.  A non-dry-run install that performs a copy writes the content of  *)
(* backups/<d>/<config> when the backup date d is given (whatever configs/ *)
(* holds) and the content of configs/<config> when no date is given.       *)
(***************************************************************************)
\* The path the claim names as the copy source for a config.
ExpectedSource(config) ==
    IF cmd.from # ""
    THEN join(BackupDir(cmd.from), IF config = "helix" THEN <<"helix">> ELSE IF config = "tmux" THEN <<"tmux", "tmux.conf">> ELSE <<"bashrc">>)
    ELSE IF config = "helix" THEN RepoHelix ELSE IF config = "tmux" THEN RepoTmux ELSE RepoBashrc

\* The install of a config made its copy: a result that is neither failed,
\* skipped nor a dry-run announcement.
InstallCopied(config) ==
    /\ cmd.name = "install" /\ ~cmd.dryrun
    /\ \E i \in 1..Len(results) : results[i].name = config /\ results[i].success /\ ~results[i].skipped

C17_InstallCopiesFromNamedSource ==
    pc \in {"display", "done"}
        => /\ \A config \in {"tmux", "bashrc"} :
                  InstallCopied(config) => fs[InstallDest(config)] = fs0[ExpectedSource(config)]
           /\ InstallCopied("helix")
                  => \A r \in TreeFiles(fs0, ExpectedSource("helix")) : fs[join(SysHelix, r)] = fs0[join(ExpectedSource("helix"), r)]

\* `install all --force --from d1` over existing files: the system bashrc
\* now holds the backup's content, which is not that of configs/bashrc, and
\* helix and tmux were copied from the backup as well.
C17_Witness ==
    /\ pc = "done" /\ cmd.sub = "all" /\ cmd.from = Today
    /\ \A config \in {"helix", "tmux", "bashrc"} : InstallCopied(config)
    /\ fs0[join(BackupDir(Today), <<"bashrc">>)] # fs0[RepoBashrc]
    /\ fs0[SysBashrc] # fs0[join(BackupDir(Today), <<"bashrc">>)]
    /\ existsSync(fs0, SysBashrc)
    /\ fs[SysBashrc] = fs0[join(BackupDir(Today), <<"bashrc">>)]
    /\ TreeFiles(fs0, join(BackupDir(Today), <<"helix">>)) # {}

(***************************************************************************)
(* C18.  No command changes its copy source: sync and backup leave every   *)
(* system path as it was, install leaves every path under configs/ and     *)
(* backups/ as it was, and backup leaves configs/ as it was.               *)
(***************************************************************************)
C18_SourceNeverChanged ==
    /\ cmd.name \in {"sync", "backup"} => \A p \in SysPaths : fs[p] = fs0[p]
    /\ cmd.name = "install" => \A p \in RepoPaths \cup BackupPaths : fs[p] = fs0[p]
    /\ cmd.name = "backup" => \A p \in RepoPaths : fs[p] = fs0[p]

\* A finished `sync all` that copied all three configs and changed the
\* repo.
C18_Witness ==
    /\ pc = "done" /\ cmd.name = "sync" /\ cmd.sub = "all" /\ ~cmd.dryrun
    /\ \A i \in 1..Len(results) : results[i].success
    /\ fs[RepoBashrc] # fs0[RepoBashrc] /\ fs[RepoTmux] # fs0[RepoTmux]
    /\ \E r \in TreeFiles(fs0, SysHelix) : fs[join(RepoHelix, r)] # fs0[join(RepoHelix, r)]
    /\ \A p \in SysPaths : fs[p] = fs0[p]

(***************************************************************************)
(* C19.  For a single-file config (bashrc, tmux.conf) whose system file    *)
(* exists, a non-dry-run sync reports success, creates the missing parent  *)
(* directories of the repo path and leaves the repo file equal to the      *)
(* system file, whether the repo file existed before or not; a second sync *)
(* right after reports success and changes nothing.                        *)
(***************************************************************************)
\* The sync of a single-file config finds a system file, and at the repo
\* path a file or nothing.
SyncCase(config) ==
    /\ cmd.name = "sync" /\ ~cmd.dryrun /\ Handles(cmd.sub, config)
    /\ Node(fs0, FileSource(cmd, config)).kind = "file"
    /\ Node(fs0, FileDest(cmd, config)).kind \in {"none", "file"}

\* The sync of the config run once more on the filesystem f.
SyncAgain(f, config) == IF config = "tmux" THEN syncTmux(f, FALSE) ELSE syncBashrc(f, FALSE)

C19_SyncCopiesSingleFile ==
    pc \in {"display", "done"}
        => \A config \in {"tmux", "bashrc"} :
               SyncCase(config)
                   => /\ \E i \in 1..Len(results) : results[i] = SyncResult(config, TRUE, "")
                      /\ \A q \in Prefixes(dirname(FileDest(cmd, config))) : Node(fs, q).kind = "dir"
                      /\ fs[FileDest(cmd, config)] = fs0[FileSource(cmd, config)]
                      /\ SyncAgain(fs, config) = [fs |-> fs, result |-> SyncResult(config, TRUE, "")]

\* A finished `sync all`: configs/tmux was missing and is created with
\* tmux.conf in it, and configs/bashrc held another content and now holds
\* that of ~/.bashrc.
C19_Witness ==
    /\ pc = "done" /\ cmd.sub = "all"
    /\ SyncCase("tmux") /\ SyncCase("bashrc")
    /\ ~existsSync(fs0, dirname(RepoTmux)) /\ isDirectory(fs, dirname(RepoTmux))
    /\ ~existsSync(fs0, RepoTmux) /\ fs[RepoTmux] = fs0[SysTmux]
    /\ Node(fs0, RepoBashrc).kind = "file" /\ fs0[RepoBashrc] # fs0[SysBashrc]
    /\ fs[RepoBashrc] = fs0[SysBashrc]

(***************************************************************************)
(* C20.  Copy is idempotent: for any source tree and any destination,      *)
(* running the same copy (of a file or of a directory, with or without     *)
(* force) a second time, the source unchanged, leaves the filesystem as    *)
(* the first run left it.                                                  *)
(***************************************************************************)
\* Running the copy a second time, from the filesystem the first run left,
\* leaves that filesystem.
Idempotent(first, second) == second.fs = first.fs

CopyTwice_install(f, src, dest, force, order) ==
    LET once == copyDirectory(f, src, dest, force, order)
    IN  Idempotent(once, copyDirectory(once.fs, src, dest, force, order))

CopyTwice_backup(f, src, dest, order) ==
    LET once == backup_copyDirectory(f, src, dest, order)
    IN  Idempotent(once, backup_copyDirectory(once.fs, src, dest, order))

CopyTwice_sync(f, src, dest, order) ==
    LET once == sync_copyDirectory(f, src, dest, order)
    IN  Idempotent(once, sync_copyDirectory(once.fs, src, dest, order))

CopyTwice_file(f, src, dest) ==
    LET once == copyFileSync(f, src, dest)
    IN  Idempotent(once, copyFileSync(once.fs, src, dest))

C20_CopyIsIdempotent ==
    /\ \A order \in Orders :
           /\ \A force \in BOOLEAN : CopyTwice_install(fs, HelixSource(cmd), HelixDest(cmd), force, order)
           /\ CopyTwice_backup(fs, HelixSource(cmd), HelixDest(cmd), order)
           /\ CopyTwice_sync(fs, HelixSource(cmd), HelixDest(cmd), order)
    /\ \A r \in TreeFiles(fs, HelixSource(cmd)) :
           CopyTwice_file(fs, join(HelixSource(cmd), r), join(HelixDest(cmd), r))
    /\ \A config \in {"tmux", "bashrc"} :
           CopyTwice_file(fs, FileSource(cmd, config), FileDest(cmd, config))

\* `sync helix` has run over a repo tree that held another content at "a"
\* and nothing at "sub": the copy changed both, and the same copy run again
\* on the result changes nothing more.
C20_Witness ==
    /\ pc = "done" /\ cmd.name = "sync" /\ \A i \in 1..Len(results) : results[i].success
    /\ {<<"a">>, <<"sub", "a">>} \subseteq TreeFiles(fs0, SysHelix)
    /\ Node(fs0, join(RepoHelix, <<"a">>)).kind = "file"
    /\ fs0[join(RepoHelix, <<"a">>)] # fs0[join(SysHelix, <<"a">>)]
    /\ ~existsSync(fs0, join(RepoHelix, <<"sub">>))
    /\ fs[join(RepoHelix, <<"a">>)] = fs0[join(SysHelix, <<"a">>)]
    /\ fs[join(RepoHelix, <<"sub", "a">>)] = fs0[join(SysHelix, <<"sub", "a">>)]
    /\ \A order \in Orders : sync_copyDirectory(fs, SysHelix, RepoHelix, order) = Ok(fs)

(***************************************************************************)
(* C21.  With verification enabled, the installation status that install   *)
(* prints describes the system as it is after the copies of that           *)
(* invocation; with --no-verify no verification check is run.              *)
(***************************************************************************)
\* What a check of one config says of the filesystem f.
StatusOf(f, config) ==
    IF config = "helix" THEN VerifyResult("helix", existsSync(f, SysHelix), IF existsSync(f, SysHelix) THEN "" ELSE "~/.config/helix not found", FALSE, FALSE, "")
    ELSE IF config = "tmux" THEN VerifyResult("tmux", existsSync(f, SysTmux), IF existsSync(f, SysTmux) THEN "" ELSE "~/.config/tmux/tmux.conf not found", FALSE, FALSE, "")
    ELSE IF ~existsSync(f, SysBashrc) THEN VerifyResult("bashrc", FALSE, "~/.bashrc not found", FALSE, FALSE, "")
    ELSE IF Node(f, SysBashrc).kind # "file" \/ Node(f, RepoBashrc).kind # "file" THEN VerifyResult("bashrc", TRUE, "Error comparing bashrc", TRUE, FALSE, "")
    ELSE IF f[SysBashrc] # f[RepoBashrc] THEN VerifyResult("bashrc", TRUE, "differs from configs/bashrc", TRUE, FALSE, "")
    ELSE VerifyResult("bashrc", TRUE, "", FALSE, FALSE, "")

C22_SyncDryrunPreviewsAll ==
    (cmd.name = "sync" /\ cmd.sub = "" /\ cmd.dryrun /\ pc = "done")
        => /\ [i \in 1..Len(results) |-> results[i].name] = Configs
           /\ \A i \in 1..Len(results) : results[i].message \in {"Would sync", "not found"}
           /\ exitCode = 0
           /\ \A p \in RepoPaths : fs[p] = fs0[p]

(***************************************************************************)
(* C23.  An install with --diff leaves no work deferred past its           *)
(* synchronous pass: once the install results have been printed, or the    *)
(* process has exited with code 1, the diff renderer is unmounted.         *)
(***************************************************************************)
C23_RendererUnmountedBeforeResults ==
    (cmd.name = "install" /\ pc = "done" /\ shown.done) => ~shown.mounted

(***************************************************************************)
(* C24.  In dry-run mode, sync and install never exit with code 1, even    *)
(* when entries report a failure.                                          *)
(***************************************************************************)
C24_DryRunNeverExitsOne ==
    (cmd.dryrun /\ pc = "done" /\ cmd.name \in {"sync", "install"} /\ cmd.sub \in Subs) => exitCode = 0

\* C24, amended.  In dry-run mode no outcome of an entry makes sync or
\* install exit with code 1: a run that reaches the dry-run notice ends with
\* code 0.  The one dry run that ends with another code is an install with
\* --diff whose diff display raises: the error is caught nowhere and ends
\* the process before any result or notice is printed.
C24_DryRunExitsOneOnlyWhenDiffRaises ==
    (cmd.dryrun /\ pc = "done" /\ cmd.name \in {"sync", "install"} /\ cmd.sub \in Subs)
        => /\ exitCode = (IF crashed THEN 1 ELSE 0)
           /\ crashed <=> (cmd.name = "install" /\ cmd.diff /\ \A order \in Orders : showConfigDiffs(fs, order).err)

\* A dry run of an `all` command in which an entry failed
\* on a missing source, ended with exit code 0.
C24_Witness ==
    /\ cmd.dryrun /\ pc = "done" /\ cmd.sub = "all" /\ ~crashed
    /\ \E i \in 1..Len(results) : ~results[i].success /\ results[i].message = "not found"
    /\ \E i \in 1..Len(results) : results[i].success
    /\ exitCode = 0

(***************************************************************************)
(* C25.  For any outcome list of a backup, the two counts displayed add up *)
(* to the number of requested configs; an entry whose copy raised an error *)
(* is counted as skipped, like an entry that was not found; and no outcome *)
(* of an entry makes backup end with a non-zero exit code, even when every *)
(* entry failed.                                                           *)
(***************************************************************************)
\* The number of configs the backup was asked for.
Requested == IF cmd.sub = "all" THEN 3 ELSE 1

\* The entries of the result list with the given message.
WithMessage(m) == {i \in 1..Len(results) : results[i].message = m}

C25_BackupCounts ==
    (cmd.name = "backup" /\ pc \in {"display", "done"} /\ ~crashed)
        => LET counts == displayBackupResults(results)
           IN  /\ Len(results) = Requested
               /\ counts.backedUpCount + counts.skippedCount = Requested
               /\ counts.skippedCount = Cardinality(WithMessage("error")) + Cardinality(WithMessage("not found, skipped"))
               /\ counts.backedUpCount = Cardinality({i \in 1..Len(results) : results[i].success})
               /\ exitCode = 0

\* A finished `backup all` in which every entry failed, one on an error
\* raised by the copy and one on a missing source: 0 backed up, 3 skipped,
\* exit code 0.
C25_Witness ==
    /\ cmd.name = "backup" /\ pc = "done" /\ cmd.sub = "all" /\ ~crashed
    /\ WithMessage("error") # {} /\ WithMessage("not found, skipped") # {}
    /\ displayBackupResults(results) = [backedUpCount |-> 0, skippedCount |-> 3]
    /\ exitCode = 0

(***************************************************************************)
(* C26.  The diff shown by install --diff does not depend on the selected  *)
(* config or on --from: for every subcommand and every backup date it      *)
(* compares configs/bashrc, configs/helix and configs/tmux/tmux.conf of    *)
(* the repo against their system paths, never a backup snapshot.           *)
(***************************************************************************)
\* The list that comparing the three configs of configs/ with the system
\* gives on the filesystem f.
ConfigsAgainstSystem(f, order) ==
    compareFiles(f, RepoBashrc, SysBashrc).val \o compareDirectories(f, RepoHelix, SysHelix, order).val \o compareFiles(f, RepoTmux, SysTmux).val

C26_DiffComparesConfigsWithSystem ==
    (cmd.name = "install" /\ pc = "done" /\ shown.done)
        => /\ \E order \in Orders : shown.diffs = ConfigsAgainstSystem(fs, order)
           /\ \A i \in 1..Len(shown.diffs) : shown.diffs[i].repoPath \in RepoPaths /\ shown.diffs[i].installedPath \in SysPaths
           /\ \A pair \in ComparedPairs :
                  /\ ShownFor(pair) # {} <=> (existsSync(fs, pair[1]) \/ existsSync(fs, pair[2]))
                  /\ \A i \in ShownFor(pair) :
                         hasDifferences(shown.diffs[i]) <=> fs[pair[1]] # fs[pair[2]]

\* `install bashrc --from d1 --diff`: ~/.bashrc now holds the backup's
\* file, and the diff shown for bashrc is the one against configs/bashrc,
\* which differs; tmux.conf, which was not selected, is compared as well.
C26_Witness ==
    /\ cmd.name = "install" /\ pc = "done" /\ shown.done
    /\ cmd.sub = "bashrc" /\ cmd.from = Today /\ InstallCopied("bashrc")
    /\ fs[SysBashrc] = fs[join(BackupDir(Today), <<"bashrc">>)]
    /\ fs[SysBashrc] # fs[RepoBashrc]
    /\ \E i \in ShownFor(<<RepoBashrc, SysBashrc>>) : hasDifferences(shown.diffs[i])
    /\ ShownFor(<<RepoTmux, SysTmux>>) # {}

(***************************************************************************)
(* C27.  verifyBashrc never raises: when ~/.bashrc is absent it returns    *)
(* installed false; when ~/.bashrc exists but configs/bashrc is missing or *)
(* cannot be read it returns installed true with warning true, and this    *)
(* case alone never makes verify exit with code 1.                         *)
(***************************************************************************)
\* The results of the run that carry the name bashrc.
BashrcResults == {i \in 1..Len(vresults) : vresults[i].name = "bashrc"}

\* A result that makes verify's displayResults exit with code 1.
Missing(r) == ~r.installed /\ ~r.optional

C27_VerifyBashrcNeverRaises ==
    (cmd.name = "verify" /\ cmd.sub \in {"all", "bashrc"} /\ pc \in {"display", "done"})
        => /\ ~crashed
           /\ Cardinality(BashrcResults) = 1
           /\ \A i \in BashrcResults :
                  /\ ~existsSync(fs, SysBashrc) => ~vresults[i].installed /\ ~vresults[i].warning
                  /\ (existsSync(fs, SysBashrc) /\ Node(fs, RepoBashrc).kind # "file")
                         => /\ vresults[i].installed /\ vresults[i].warning
                            /\ ~Missing(vresults[i])
                            /\ (pc = "done" /\ exitCode = 1) => \E j \in 1..Len(vresults) : j # i /\ Missing(vresults[j])

\* A finished `verify all` with every tool present, ~/.bashrc a file and
\* configs/bashrc a directory, which cannot be read: the bashrc result is
\* a warning and the exit code is 0.
C27_Witness ==
    /\ cmd.name = "verify" /\ cmd.sub = "all" /\ pc = "done" /\ ~crashed
    /\ Node(fs, SysBashrc).kind = "file" /\ Node(fs, RepoBashrc).kind = "dir"
    /\ \A i \in BashrcResults : vresults[i].installed /\ vresults[i].warning /\ vresults[i].message = "Error comparing bashrc"
    /\ BashrcResults # {}
    /\ exitCode = 0

====
